---- MODULE Spec2Model ----
(***************************************************************************)
(* Model of the smart-bracelet app's Connectivity Manager                  *)
(* (BluetoothManager, src/services/bluetooth/permissions.ts, the           *)
(* react-native-ble-plx variant) together with the transport it drives.    *)
(*                                                                         *)
(* Granularity: one action is one run of JavaScript from an external       *)
(* stimulus (a caller's invocation, the completion of a native promise, a  *)
(* timer, a transport callback) up to the next await on a native promise.  *)
(* Awaits on promises that are already settled (the async functions       *)
(* stopScanning and setupHealthDataNotifications contain no native await)  *)
(* resume in the same run and are not interleaving points.                 *)
(*                                                                         *)
(* Observation variables: emitted holds the events of the latest run,      *)
(* returned the invocation that ended in the latest run, announced the     *)
(* state the listeners of onConnectionStateChanged were last told,         *)
(* scanOnly whether nothing but scanning has happened so far.              *)
(***************************************************************************)
EXTENDS Integers, Sequences, FiniteSets, TLC

\* ---------------------------------------------------------------- bounds
MaxInflight == 1       \* invocations suspended at the same time
MaxScanTimers == 1     \* scan timeouts pending at the same time
MaxTriggers == 1       \* invocations of attemptReconnect from outside its timer chain
MaxPackets == 3        \* vitals-received events handled by the Health Data Context
MaxTicks == 6          \* steps of the clock
MaxOverlap == 1        \* invocations and scan timeouts on top of the above, where
                       \* the callers overlap their calls
MaxOffline == 3        \* invocations of storeOfflineHealthData

\* ------------------------------------------------------------- constants
maxReconnectAttempts == 3

Devices == {"A", "B"}
ConnectionStates ==
  {"disconnected", "scanning", "connecting", "connected", "disconnecting", "error"}

\* device.name as reported by the transport ("" stands for null)
DeviceName(d) == IF d = "A" THEN "MedBand" ELSE ""
\* services discovered on the device
DeviceServices(d) == IF d = "A" THEN {"180d", "180f"} ELSE {"180d"}

\* connectedDevice === null
NoDevice == [id |-> "", name |-> "", services |-> {}]

\* notification payloads (byte sequences; <<>> is an empty value)
Payloads == {<<>>, <<0>>, <<0, 72>>, <<1, 72, 0>>}

VARIABLES
  connectionState,            \* this.connectionState
  connectedDevice,            \* this.connectedDevice
  isScanning,                 \* this.isScanning
  reconnectAttempts,          \* this.reconnectAttempts
  reconnectTimeout,           \* this.reconnectTimeout is non-null
  scanSubscription,           \* this.scanSubscription is non-null
  notificationSubscriptions,  \* this.notificationSubscriptions: <<key, device>> pairs
  btOn,                       \* adapter state of the transport
  bleScanning,                \* a transport scan is running
  links,                      \* devices with an open transport connection
  monitors,                   \* live characteristic monitors of the transport:
                              \* [dev, mapped], mapped: held in notificationSubscriptions
  scanTimers,                 \* pending scan timeouts (setTimeout of startScanning)
  reconnectTimers,            \* delays of the pending reconnect timers, oldest first
  handlePending,              \* the timer reconnectTimeout refers to is still pending
  calls,                      \* suspended invocations, oldest first
  emitted,                    \* the emit()s of the latest run, in order
  returned,                   \* the invocation that ended in the latest run
  announced,                  \* the state of the latest onConnectionStateChanged
  scanOnly,                   \* nothing but scanning has been going on so far
  events,                     \* this.events: the handler registered per event name
  delivered,                  \* the handler invocations of the latest run, in order
  contextMounted,             \* the Health Data Context is mounted
  wifiConstructed,            \* the WiFi manager has been constructed
  triggers,                   \* invocations of attemptReconnect from outside its chain
  reconnectTrace,             \* what the reconnect chain did, in order
  chainBroken,                \* the chain was disturbed (see BreakChain)
  devices,                    \* DeviceSelectionModal: the devices state (the list shown)
  now,                        \* the clock (Date.now()), in milliseconds
  hasAlerts,                  \* HealthDataProvider: the hasAlerts state
  alertTimers,                \* due times of the pending setTimeouts of checkForAlerts
  currentData,                \* HealthDataProvider: the currentData state
  historicalData,             \* HealthDataProvider: the historicalData state
  packetsHandled,             \* vitals-received events the context has handled
  answered,                   \* the latest call of a service function that ended:
                              \* its name, arguments and result
  api,                        \* ApiClient: the call of get/post/put/patch/delete
                              \* in progress (retryRequest)
  asyncStorage,               \* AsyncStorage: per key the stored text
  overlap,                    \* how many more invocations than MaxInflight and
                              \* scan timeouts than MaxScanTimers the callers
                              \* keep open
  contextLink,                \* HealthDataProvider: the isConnected and
                              \* connectedDevice states
  secureStore,                \* SecureStore: per key the stored text
  pendingSync,                \* AsyncStorage: the array stored under
                              \* @medband_cache_pending_sync
  offlineCalls                \* invocations of storeOfflineHealthData whose read
                              \* has resolved: the item and the array read

vars == <<connectionState, connectedDevice, isScanning, reconnectAttempts,
          reconnectTimeout, scanSubscription, notificationSubscriptions,
          btOn, bleScanning, links, monitors, scanTimers,
          reconnectTimers, handlePending, calls, emitted, returned, announced,
          scanOnly, events, delivered, contextMounted, wifiConstructed, triggers, reconnectTrace, chainBroken,
          devices, now, hasAlerts, alertTimers, currentData, historicalData,
          packetsHandled, answered, api, asyncStorage, overlap, contextLink,
          secureStore, pendingSync, offlineCalls>>

managerVars == <<connectionState, connectedDevice, isScanning, reconnectAttempts,
                 reconnectTimeout, scanSubscription, notificationSubscriptions>>
transportVars == <<btOn, bleScanning, links, monitors>>
timerVars == <<scanTimers, reconnectTimers, handlePending>>
chainVars == <<triggers, reconnectTrace, chainBroken>>
busVars == <<events, contextMounted, wifiConstructed>>
contextVars == <<now, hasAlerts, alertTimers, currentData, historicalData,
                 packetsHandled>>
\* the state of the components around the manager that a run of the manager
\* with no handler of theirs leaves alone
storeVars == <<secureStore, pendingSync, offlineCalls>>
serviceVars == <<contextVars, answered, api, asyncStorage, storeVars>>

\* ------------------------------------------------------------ event bus
\* emit(event, arg): the entry also records the connectionState at emission
\* (what a handler calling getConnectionState() would see)
emit(lg, ev, arg, at) == Append(lg, [ev |-> ev, arg |-> arg, at |-> at])

\* a setConnectionState that emits also when the state stays the same
setConnectionStateAlways(cur, lg, s) ==
  [state |-> s, log |-> emit(lg, "onConnectionStateChanged", s, s)]

\* setConnectionState(state): returns the new state and the new log
setConnectionState(cur, lg, s) ==
  IF cur # s
    THEN [state |-> s, log |-> emit(lg, "onConnectionStateChanged", s, s)]
    ELSE [state |-> cur, log |-> lg]

\* what the listeners of onConnectionStateChanged have last been told,
\* after a run that emitted lg
Announced(lg, before) ==
  LET changes == SelectSeq(lg, LAMBDA e : e.ev = "onConnectionStateChanged") IN
  IF changes = <<>> THEN before ELSE changes[Len(changes)].arg
\* the event names of BluetoothEvents
EventNames ==
  {"onDeviceDiscovered", "onDeviceConnected", "onDeviceDisconnected",
   "onHealthDataReceived", "onConnectionStateChanged", "onError"}
\* who registers handlers: the Health Data Context, the WiFi manager and
\* the device-selection modal
Handlers == {"context", "wifi", "modal"}
\* this.events[event] is undefined
NoHandler == "none"

\* a bus that keeps the handler registered first
onKeepsFirst(evts, e, h) ==
  IF evts[e] = NoHandler THEN [evts EXCEPT ![e] = h] ELSE evts

\* on(event, callback)
on(evts, e, h) == [evts EXCEPT ![e] = h]
\* off(event)
off(evts, e) == [evts EXCEPT ![e] = NoHandler]
\* the handler invocations made by the emit()s of lg with the handlers evts
Invocations(lg, evts) ==
  LET heard == SelectSeq(lg, LAMBDA x : evts[x.ev] # NoHandler) IN
  [i \in 1..Len(heard) |->
     [handler |-> evts[heard[i].ev], ev |-> heard[i].ev, arg |-> heard[i].arg]]

\* the observations of a run: what listeners were told, whether anything
\* but scanning has happened (a connectToDevice was invoked or the adapter
\* went off), and which handlers the emit()s of the run invoked
\* the Health Data Context before any event: useState(false), useState(null)
NoLink == [isConnected |-> FALSE, connectedDevice |-> ""]

\* the isConnected and connectedDevice states after the context's handlers of
\* onConnectionStateChanged, onDeviceConnected and onDeviceDisconnected ran
\* for the invocations inv
RECURSIVE contextHandlers(_, _)
contextHandlers(inv, prev) ==
  IF inv = <<>> THEN prev
  ELSE LET x == Head(inv) IN
       contextHandlers(Tail(inv),
         IF x.handler # "context" THEN prev
         ELSE CASE x.ev = "onConnectionStateChanged" ->
                     [prev EXCEPT !.isConnected = (x.arg = "connected")]
                [] x.ev = "onDeviceConnected" ->
                     [isConnected |-> TRUE, connectedDevice |-> x.arg.id]
                [] x.ev = "onDeviceDisconnected" -> NoLink
                [] OTHER -> prev)

\* BluetoothManager.isConnected()
isConnected == connectionState = "connected" /\ connectedDevice # NoDevice

ObserveBus ==
  /\ UNCHANGED overlap
  /\ announced' = Announced(emitted', announced)
  /\ scanOnly' = /\ scanOnly
                 /\ btOn'
                 /\ ~(/\ Len(calls') > Len(calls)
                      /\ calls'[Len(calls')].op = "connectToDevice")
  /\ delivered' = Invocations(emitted', events)
  /\ contextLink' =
       IF ~contextMounted' THEN NoLink
       ELSE IF ~contextMounted THEN [NoLink EXCEPT !.isConnected = isConnected]
       ELSE contextHandlers(delivered', contextLink)
\* the observations of a run of the manager
ObserveRun ==
  /\ ObserveBus
  /\ UNCHANGED serviceVars

\* the modal's handler without the test for a known id
addDeviceAlways(prev, device) == Append(prev, device)

\* the modal's handler of onDeviceDiscovered, setDevices(prev => ...): a
\* device whose id is in the list is dropped, another one is appended
addDevice(prev, device) ==
  IF \E i \in 1..Len(prev) : prev[i].id = device.id THEN prev ELSE Append(prev, device)

\* the devices state after the modal's handler ran for the invocations inv
RECURSIVE setDevices(_, _)
setDevices(inv, prev) ==
  IF inv = <<>> THEN prev
  ELSE setDevices(Tail(inv),
                  IF Head(inv).handler = "modal" /\ Head(inv).ev = "onDeviceDiscovered"
                    THEN addDevice(prev, Head(inv).arg) ELSE prev)

\* the observations of a run, with the modal's list after its handler ran
Observe ==
  /\ ObserveRun
  /\ devices' = setDevices(delivered', devices)
\* a run that registers and removes no handler
Announce ==
  /\ UNCHANGED busVars
  /\ Observe

\* a snapshot that keeps the services of the snapshot it replaces
MergedSnapshot(d) ==
  [id |-> d,
   name |-> IF DeviceName(d) = "" THEN "Health Monitor" ELSE DeviceName(d),
   services |-> DeviceServices(d) \cup connectedDevice.services]

\* the ConnectedDevice object literal built by connectToDevice for device d
ConnectedDeviceSnapshot(d) ==
  [id |-> d,
   name |-> IF DeviceName(d) = "" THEN "Health Monitor" ELSE DeviceName(d),
   services |-> DeviceServices(d)]

\* no call of a service function has ended yet
NoAnswer == [fn |-> "none"]
\* no call of the ApiClient is in progress
NoError == [name |-> "", response |-> [present |-> FALSE, status |-> 0]]
ApiIdle ==
  [pc |-> "idle", method |-> "", retryCount |-> 0, requests |-> 0,
   statuses |-> <<>>, delays |-> <<>>, error |-> NoError, authToken |-> TRUE]
\* keys used with AsyncStorageService; a key with no stored item
StorageKeys == {"profile", "settings"}
Absent == [text |-> "", value |-> [type |-> "undefined", repr |-> ""], present |-> FALSE]

\* StorageService.STORAGE_CATEGORIES: the sensitive category and two of the
\* five categories that storeData and getData send to asyncStorage
SENSITIVE == "sensitive"
GeneralCategories == {"preferences", "cache"}
STORAGE_CATEGORIES == {SENSITIVE} \cup GeneralCategories
\* the keys the callers of StorageService use, per category: storeSession's
\* 'user_id', the WiFi manager's `wifi_config_${deviceId}`, and others
FacadeKeys(category) ==
  CASE category = SENSITIVE -> {"user_id", "wifi_config_A", "profile"}
    [] category = "preferences" -> {"user_preferences"}
    [] category = "cache" -> {"user_profile"}
\* storeData / getData: const storageKey = `${category}_${key}`
storageKey(category, key) == category \o "_" \o key
\* SecureStorageService.clearAll: const knownKeys
knownKeys ==
  {"access_token", "refresh_token", "token_expires_at", "user_id",
   "user_credentials", "sensitive_profile"}
\* the keys SecureStorageService is used with (each stored under
\* PREFIX + key): the known ones and those of the sensitive category
SecureKeys ==
  knownKeys \cup {storageKey(SENSITIVE, k) : k \in FacadeKeys(SENSITIVE)}
\* the keys AsyncStorageService is used with (each stored under PREFIX + key)
AsyncKeys ==
  StorageKeys \cup
  UNION {{storageKey(c, k) : k \in FacadeKeys(c)} : c \in GeneralCategories}
\* no array has been stored under pending_sync
NoQueue == [present |-> FALSE, items |-> <<>>]
\* storeOfflineHealthData: keep only last 1000 pending sync items
pendingSyncCap == 1000
\* the array after n items have been queued one after the other; an item is
\* named by a number, later items by larger numbers
Queued(n) == IF n = 0 THEN NoQueue
             ELSE [present |-> TRUE, items |-> [i \in 1..n |-> i]]
\* how many items the array holds to begin with
QueueFills == {0, pendingSyncCap - 1}

\* useState initial values of DeviceSelectionModal and HealthDataProvider;
\* the clock starts at 0
Services(queue) ==
  /\ secureStore = [k \in SecureKeys |-> Absent]
  /\ pendingSync = queue
  /\ offlineCalls = <<>>
  /\ devices = <<>>
  /\ now = 0
  /\ hasAlerts = FALSE
  /\ alertTimers = <<>>
  /\ currentData = [heartRate |-> 0, bloodPressureSystolic |-> 0,
                    bloodPressureDiastolic |-> 0, temperature |-> 0,
                    oxygenLevel |-> 0, lastUpdated |-> 0]
  /\ historicalData = <<>>
  /\ packetsHandled = 0
  /\ answered = NoAnswer
  /\ api = ApiIdle
  /\ asyncStorage = [k \in AsyncKeys |-> Absent]
  /\ contextLink = NoLink

InitServices == Services(NoQueue)

\* the manager after construction, with callers that keep n more invocations
\* open than MaxInflight and m more scan timeouts than MaxScanTimers
Constructed(n, m) ==
  /\ overlap = [invocations |-> n, scanTimers |-> m]
  /\ connectionState = "disconnected"
  /\ connectedDevice = NoDevice
  /\ isScanning = FALSE
  /\ reconnectAttempts = 0
  /\ reconnectTimeout = FALSE
  /\ scanSubscription = FALSE
  /\ notificationSubscriptions = {}
  /\ btOn = TRUE
  /\ bleScanning = FALSE
  /\ links = {}
  /\ monitors = {}
  /\ scanTimers = 0
  /\ reconnectTimers = <<>>
  /\ handlePending = FALSE
  /\ calls = <<>>
  /\ emitted = <<>>
  /\ returned = <<>>
  /\ announced = ""
  /\ scanOnly = TRUE
  /\ events = [e \in EventNames |-> NoHandler]
  /\ delivered = <<>>
  /\ contextMounted = FALSE
  /\ wifiConstructed = FALSE
  /\ triggers = 0
  /\ reconnectTrace = <<>>
  /\ chainBroken = FALSE

Started(n, m) ==
  /\ Constructed(n, m)
  /\ InitServices

Init == Started(0, 0)

\* ------------------------------------------------------------ call records
\* op: the method; pc: where the invocation is suspended, or how it ended;
\* dev: its device id; via: who invoked it; entered: connectionState when the
\* invocation first suspended or returned; failed: the sub-step that failed
Call(op, pc, dev, via, entered) ==
  [op |-> op, pc |-> pc, dev |-> dev, via |-> via, entered |-> entered,
   failed |-> "none"]

CanSuspend == Len(calls) < MaxInflight + overlap.invocations
Suspend(c) == calls' = Append(calls, c)
Resume(t, pc) == calls' = [calls EXCEPT ![t].pc = pc]
\* the invocation t ends; c is its final record
End(t, c) ==
  /\ calls' = [i \in 1..(Len(calls) - 1) |-> IF i < t THEN calls[i] ELSE calls[i + 1]]
  /\ returned' = <<c>>
\* an invocation that never suspends
Immediate(c) ==
  /\ returned' = <<c>>
  /\ UNCHANGED calls

\* Map.set(key, value)
MapSet(map, key, value) == {p \in map : p[1] # key} \cup {<<key, value>>}

\* a live monitor on device d
Monitor(d, mapped) == [dev |-> d, mapped |-> mapped]
\* the monitors no entry of notificationSubscriptions refers to any more
Unmapped(ms) == {Monitor(m.dev, FALSE) : m \in ms}

\* the reconnect chain started by the first attemptReconnect() is disturbed
\* by a successful connect, by the release of the device, or by a second
\* outside invocation of attemptReconnect
BreakChain == chainBroken' = (chainBroken \/ triggers > 0)

\* -------------------------------------------------------------- scanning
\* startScanning, lines 508-542: state change, transport scan, timeout
BeginScan ==
  LET r == setConnectionState(connectionState, <<>>, "scanning") IN
  /\ scanTimers < MaxScanTimers + overlap.scanTimers
  /\ connectionState' = r.state
  /\ emitted' = r.log
  /\ isScanning' = TRUE
  /\ scanSubscription' = TRUE
  /\ bleScanning' = TRUE
  /\ scanTimers' = scanTimers + 1

\* startScanning, catch block
FailScan(lg) ==
  LET r == setConnectionState(connectionState, lg, "error") IN
  /\ connectionState' = r.state
  /\ emitted' = emit(r.log, "onError", "scan", r.state)
  /\ UNCHANGED <<isScanning, scanSubscription, bleScanning, scanTimers>>

\* startScanning() that, with a scan in progress, sets the state and starts
\* the transport scan again
StartScanningAgain ==
  /\ isScanning
  /\ LET r == setConnectionState(connectionState, <<>>, "scanning") IN
       /\ connectionState' = r.state
       /\ emitted' = r.log
  /\ bleScanning' = TRUE
  /\ Immediate(Call("startScanning", "resolved", "", "caller", connectionState))
  /\ UNCHANGED <<connectedDevice, isScanning, reconnectAttempts, reconnectTimeout,
                 scanSubscription, notificationSubscriptions, btOn, links,
                 monitors, timerVars, chainVars>>
  /\ Announce

\* startScanning() invoked while a scan is in progress: logs and returns
StartScanningAlready ==
  /\ isScanning
  /\ Immediate(Call("startScanning", "resolved", "", "caller", connectionState))
  /\ emitted' = <<>>
  /\ UNCHANGED <<managerVars, transportVars, timerVars, chainVars>>
  /\ Announce

\* startScanning() suspended in await checkPermissions(). Platform.OS is
\* 'android', where the check is a native call; on iOS checkPermissions
\* returns true at once and startScanning runs as this step immediately
\* followed by CheckPermissionsDone(t, TRUE)
StartScanningCheck ==
  /\ ~isScanning
  /\ CanSuspend
  /\ Suspend(Call("startScanning", "check", "", "caller", connectionState))
  /\ emitted' = <<>>
  /\ returned' = <<>>
  /\ UNCHANGED <<managerVars, transportVars, timerVars, chainVars>>
  /\ Announce

\* checkPermissions() settled
CheckPermissionsDone(t, has) ==
  /\ calls[t].op = "startScanning" /\ calls[t].pc = "check"
  /\ IF has
       THEN /\ BeginScan
            /\ End(t, [calls[t] EXCEPT !.pc = "resolved"])
       ELSE /\ Resume(t, "request")
            /\ emitted' = <<>>
            /\ returned' = <<>>
            /\ UNCHANGED <<connectionState, isScanning, scanSubscription,
                           bleScanning, scanTimers>>
  /\ UNCHANGED <<connectedDevice, reconnectAttempts, reconnectTimeout,
                 notificationSubscriptions, btOn, links, monitors,
                 reconnectTimers, handlePending, chainVars>>
  /\ Announce

\* startScanning that starts the scan before it looks at the outcome of
\* the permission request
RequestPermissionsScanFirst(t, outcome) ==
  /\ calls[t].op = "startScanning" /\ calls[t].pc = "request"
  /\ BeginScan
  /\ IF outcome = "granted"
       THEN End(t, [calls[t] EXCEPT !.pc = "resolved"])
       ELSE End(t, [calls[t] EXCEPT !.pc = "rejected", !.failed = "permissions"])
  /\ UNCHANGED <<connectedDevice, reconnectAttempts, reconnectTimeout,
                 notificationSubscriptions, btOn, links, monitors,
                 reconnectTimers, handlePending, chainVars>>
  /\ Announce

\* requestPermissions() settled: granted, denied, or the native request threw
RequestPermissionsDone(t, outcome) ==
  /\ calls[t].op = "startScanning" /\ calls[t].pc = "request"
  /\ CASE outcome = "granted" ->
            /\ BeginScan
            /\ End(t, [calls[t] EXCEPT !.pc = "resolved"])
       [] outcome = "denied" ->
            /\ FailScan(<<>>)
            /\ End(t, [calls[t] EXCEPT !.pc = "rejected", !.failed = "permissions"])
       [] outcome = "threw" ->
            /\ FailScan(emit(<<>>, "onError", "permissions", connectionState))
            /\ End(t, [calls[t] EXCEPT !.pc = "rejected", !.failed = "permissions"])
  /\ UNCHANGED <<connectedDevice, reconnectAttempts, reconnectTimeout,
                 notificationSubscriptions, btOn, links, monitors,
                 reconnectTimers, handlePending, chainVars>>
  /\ Announce

\* what stopScanning() reads and writes
ScanView ==
  [connectionState |-> connectionState, isScanning |-> isScanning,
   scanSubscription |-> scanSubscription, bleScanning |-> bleScanning]

\* a stopScanning() that sets 'disconnected' whatever the state was
stopScanningClobbers(v) ==
  [connectionState |-> "disconnected", isScanning |-> FALSE,
   scanSubscription |-> FALSE,
   bleScanning |-> IF v.scanSubscription THEN FALSE ELSE v.bleScanning,
   log |-> setConnectionState(v.connectionState, <<>>, "disconnected").log]

\* a stopScanning() that toggles isScanning instead of clearing it
stopScanningToggles(v) ==
  [connectionState |-> IF v.connectionState = "scanning" THEN "disconnected"
                       ELSE v.connectionState,
   isScanning |-> ~v.isScanning,
   scanSubscription |-> FALSE,
   bleScanning |-> IF v.scanSubscription THEN FALSE ELSE v.bleScanning,
   log |-> IF v.connectionState = "scanning"
             THEN setConnectionState(v.connectionState, <<>>, "disconnected").log
             ELSE <<>>]

\* stopScanning() run on the view v: the view it leaves and the events it emits
stopScanningResult(v) ==
  LET r == IF v.connectionState = "scanning"
             THEN setConnectionState(v.connectionState, <<>>, "disconnected")
             ELSE [state |-> v.connectionState, log |-> <<>>] IN
  [connectionState |-> r.state, isScanning |-> FALSE, scanSubscription |-> FALSE,
   bleScanning |-> IF v.scanSubscription THEN FALSE ELSE v.bleScanning,
   log |-> r.log]

\* body of stopScanning()
stopScanning ==
  LET r == stopScanningResult(ScanView) IN
  /\ bleScanning' = r.bleScanning
  /\ scanSubscription' = r.scanSubscription
  /\ isScanning' = r.isScanning
  /\ connectionState' = r.connectionState
  /\ emitted' = r.log

\* stopScanning() invoked by a caller
StopScanning ==
  /\ stopScanning
  /\ Immediate(Call("stopScanning", "resolved", "", "caller",
                    IF connectionState = "scanning"
                      THEN "disconnected" ELSE connectionState))
  /\ UNCHANGED <<connectedDevice, reconnectAttempts, reconnectTimeout,
                 notificationSubscriptions, btOn, links, monitors,
                 timerVars, chainVars>>
  /\ Announce

\* a scan timeout that fires without stopping anything
ScanTimeoutIdle ==
  /\ scanTimers > 0
  /\ scanTimers' = scanTimers - 1
  /\ emitted' = <<>>
  /\ returned' = <<>>
  /\ UNCHANGED <<managerVars, transportVars, reconnectTimers, handlePending,
                 calls, chainVars>>
  /\ Announce

\* the timeout scheduled by startScanning fires
ScanTimeout ==
  /\ scanTimers > 0
  /\ scanTimers' = scanTimers - 1
  /\ stopScanning
  /\ returned' = <<>>
  /\ UNCHANGED <<connectedDevice, reconnectAttempts, reconnectTimeout,
                 notificationSubscriptions, btOn, links, monitors,
                 reconnectTimers, handlePending, calls, chainVars>>
  /\ Announce

\* the listener passed to startDeviceScan: error branch
ScanError ==
  /\ bleScanning
  /\ LET r == setConnectionState(connectionState, <<>>, "error") IN
       /\ connectionState' = r.state
       /\ emitted' = emit(r.log, "onError", "scan", r.state)
  /\ returned' = <<>>
  /\ UNCHANGED <<connectedDevice, isScanning, reconnectAttempts, reconnectTimeout,
                 scanSubscription, notificationSubscriptions,
                 transportVars, timerVars, calls, chainVars>>
  /\ Announce

\* signal strengths an advertisement is received with
Rssi == {-70, -50}
\* const bluetoothDevice: BluetoothDevice, built from the scanned device
BluetoothDevice(d, rssi) ==
  [id |-> d, name |-> IF DeviceName(d) = "" THEN "Unknown Device" ELSE DeviceName(d),
   rssi |-> rssi]

\* the listener passed to startDeviceScan: device branch
DeviceDiscovered(d) ==
  /\ bleScanning /\ btOn
  /\ \E rssi \in Rssi :
       emitted' = emit(<<>>, "onDeviceDiscovered", BluetoothDevice(d, rssi),
                       connectionState)
  /\ returned' = <<>>
  /\ UNCHANGED <<managerVars, transportVars, timerVars, calls,
                 chainVars>>
  /\ Announce

\* ------------------------------------------------------------- connecting
\* connectToDevice up to await this.bleManager.connectToDevice(deviceId)
connectToDeviceBegin(d, via) ==
  LET r == setConnectionState(connectionState, <<>>, "connecting") IN
  /\ CanSuspend
  /\ connectionState' = r.state
  /\ emitted' = r.log
  /\ Suspend(Call("connectToDevice", "connect", d, via, r.state))
  /\ returned' = <<>>

\* a delay that grows linearly with the attempt number
linearDelay(attempts) == attempts * 2000

\* attemptReconnect, catch block: Math.pow(2, this.reconnectAttempts) * 1000
reconnectDelay(attempts) == (2 ^ attempts) * 1000

\* connectToDevice, catch block; a rejection inside attemptReconnect then
\* schedules the next attempt (attemptReconnect, catch block)
connectToDeviceCatch(t, step) ==
  LET r == setConnectionState(connectionState, <<>>, "error")
      delay == reconnectDelay(reconnectAttempts) IN
  /\ connectionState' = r.state
  /\ emitted' = emit(r.log, "onError", "connect", r.state)
  /\ End(t, [calls[t] EXCEPT !.pc = "rejected", !.failed = step])
  /\ IF calls[t].via = "reconnect"
       THEN /\ reconnectTimers' = Append(reconnectTimers, delay)
            /\ handlePending' = TRUE
            /\ reconnectTimeout' = TRUE
            /\ reconnectTrace' = IF chainBroken THEN reconnectTrace
                                 ELSE Append(reconnectTrace, <<"delay", delay>>)
       ELSE UNCHANGED <<reconnectTimers, handlePending, reconnectTimeout,
                        reconnectTrace>>
  /\ UNCHANGED <<connectedDevice, reconnectAttempts, notificationSubscriptions,
                 monitors, chainBroken>>

\* connectToDevice(deviceId) invoked by a caller
ConnectToDevice(d) ==
  /\ connectToDeviceBegin(d, "caller")
  /\ UNCHANGED <<connectedDevice, isScanning, reconnectAttempts, reconnectTimeout,
                 scanSubscription, notificationSubscriptions,
                 transportVars, timerVars, chainVars>>
  /\ Announce

\* bleManager.connectToDevice settled
TransportConnectDone(t, ok) ==
  /\ calls[t].op = "connectToDevice" /\ calls[t].pc = "connect"
  /\ IF ok
       THEN /\ btOn
            /\ links' = links \cup {calls[t].dev}
            /\ Resume(t, "discover")
            /\ emitted' = <<>>
            /\ returned' = <<>>
            /\ UNCHANGED <<connectionState, connectedDevice, reconnectAttempts,
                           notificationSubscriptions, monitors, reconnectTimers,
                           handlePending, reconnectTimeout, reconnectTrace,
                           chainBroken>>
       ELSE /\ connectToDeviceCatch(t, "transport")
            /\ UNCHANGED links
  /\ UNCHANGED <<isScanning, scanSubscription, btOn, bleScanning,
                 scanTimers, triggers>>
  /\ Announce

\* setupHealthDataNotifications(device): monitorCharacteristicForService
\* either returns a subscription or throws (caught inside)
setupHealthDataNotifications(d, ok, lg, st) ==
  IF ok
    THEN /\ monitors' = Unmapped(monitors) \cup {Monitor(d, TRUE)}
         /\ notificationSubscriptions' =
              MapSet(notificationSubscriptions, "heart_rate", d)
         /\ emitted' = emit(lg, "onDeviceConnected", ConnectedDeviceSnapshot(d), st)
    ELSE /\ UNCHANGED <<monitors, notificationSubscriptions>>
         /\ emitted' = emit(emit(lg, "onError", "notifications", st),
                            "onDeviceConnected", ConnectedDeviceSnapshot(d), st)

\* discovery (discoverAllServicesAndCharacteristics, services,
\* characteristicsForService) settled; on success the rest of connectToDevice
DiscoveryDone(t, ok, setupOk) ==
  /\ calls[t].op = "connectToDevice" /\ calls[t].pc = "discover"
  /\ IF ok
       THEN LET d == calls[t].dev
                r == setConnectionState(connectionState, <<>>, "connected") IN
            /\ btOn /\ d \in links
            /\ connectedDevice' = ConnectedDeviceSnapshot(d)
            /\ connectionState' = r.state
            /\ reconnectAttempts' = 0
            /\ setupHealthDataNotifications(d, setupOk, r.log, r.state)
            /\ End(t, [calls[t] EXCEPT !.pc = "resolved",
                         !.failed = IF setupOk THEN "none" ELSE "notifications"])
            /\ BreakChain
            /\ UNCHANGED <<reconnectTimers, handlePending, reconnectTimeout,
                           reconnectTrace>>
       ELSE /\ setupOk
            /\ connectToDeviceCatch(t, "discovery")
  /\ UNCHANGED <<isScanning, scanSubscription, btOn, bleScanning, links,
                 scanTimers, triggers>>
  /\ Announce

\* ---------------------------------------------------------- disconnecting
\* disconnectFromDevice() that, with no device held, goes on to announce
\* 'disconnecting'
DisconnectNoDeviceProceeds ==
  /\ connectedDevice = NoDevice
  /\ LET r == setConnectionState(connectionState, <<>>, "disconnecting") IN
       /\ connectionState' = r.state
       /\ emitted' = r.log
  /\ Immediate(Call("disconnectFromDevice", "resolved", "", "caller",
                    connectionState))
  /\ UNCHANGED <<connectedDevice, isScanning, reconnectAttempts, reconnectTimeout,
                 scanSubscription, notificationSubscriptions, transportVars,
                 timerVars, chainVars>>
  /\ Announce

\* disconnectFromDevice() with no device held: returns
DisconnectNoDevice ==
  /\ connectedDevice = NoDevice
  /\ Immediate(Call("disconnectFromDevice", "resolved", "", "caller",
                    connectionState))
  /\ emitted' = <<>>
  /\ UNCHANGED <<managerVars, transportVars, timerVars, chainVars>>
  /\ Announce

\* disconnectFromDevice() up to await cancelDeviceConnection(deviceId)
DisconnectFromDevice ==
  /\ connectedDevice # NoDevice
  /\ CanSuspend
  /\ LET r == setConnectionState(connectionState, <<>>, "disconnecting") IN
       /\ connectionState' = r.state
       /\ emitted' = r.log
  /\ monitors' = {m \in monitors : ~m.mapped}
  /\ notificationSubscriptions' = {}
  /\ Suspend(Call("disconnectFromDevice", "cancel", connectedDevice.id,
                  "caller", "disconnecting"))
  /\ returned' = <<>>
  /\ UNCHANGED <<connectedDevice, isScanning, reconnectAttempts, reconnectTimeout,
                 scanSubscription, btOn, bleScanning, links, timerVars,
                 chainVars>>
  /\ Announce

\* cancelDeviceConnection settled; the transport ends the monitors of a
\* device whose connection it closes
CancelConnectionDone(t, ok) ==
  /\ calls[t].op = "disconnectFromDevice" /\ calls[t].pc = "cancel"
  /\ IF ok
       THEN LET r == setConnectionState(connectionState, <<>>, "disconnected") IN
            /\ links' = links \ {calls[t].dev}
            /\ monitors' = {m \in monitors : m.dev # calls[t].dev}
            /\ connectedDevice' = NoDevice
            /\ connectionState' = r.state
            /\ emitted' = emit(r.log, "onDeviceDisconnected", calls[t].dev, r.state)
            /\ End(t, [calls[t] EXCEPT !.pc = "resolved"])
            /\ BreakChain
       ELSE LET r == setConnectionState(connectionState, <<>>, "error") IN
            /\ connectionState' = r.state
            /\ emitted' = emit(r.log, "onError", "disconnect", r.state)
            /\ End(t, [calls[t] EXCEPT !.pc = "rejected", !.failed = "transport"])
            /\ UNCHANGED <<links, monitors, connectedDevice, chainBroken>>
  /\ UNCHANGED <<isScanning, reconnectAttempts, reconnectTimeout, scanSubscription,
                 notificationSubscriptions, btOn, bleScanning, timerVars,
                 triggers, reconnectTrace>>
  /\ Announce

\* ------------------------------------------------------------ vitals data
\* CHARACTERISTIC_UUIDS, by their 16-bit short form
HEART_RATE_MEASUREMENT == "2a37"
BLOOD_PRESSURE_MEASUREMENT == "2a35"
TEMPERATURE_MEASUREMENT == "2a1c"
OXYGEN_SATURATION == "2a5e"
BATTERY_LEVEL == "2a19"
FIRMWARE_REVISION == "2a26"
CHARACTERISTIC_UUIDS ==
  {HEART_RATE_MEASUREMENT, BLOOD_PRESSURE_MEASUREMENT, TEMPERATURE_MEASUREMENT,
   OXYGEN_SATURATION, BATTERY_LEVEL, FIRMWARE_REVISION}

\* DataView reads at byte offset o; little-endian; the caller checks Fits
Fits(data, o, n) == Len(data) >= o + n
getUint8(data, o) == data[o + 1]
getUint16(data, o) == data[o + 1] + 256 * data[o + 2]
getInt32(data, o) ==
  LET top == IF data[o + 4] >= 128 THEN data[o + 4] - 256 ELSE data[o + 4]
  IN top * 16777216 + (data[o + 1] + 256 * data[o + 2] + 65536 * data[o + 3])

\* parseHeartRate reading the 16-bit value high byte first
parseHeartRateBigEndian(data) ==
  IF Len(data) < 1 THEN -1
  ELSE IF data[1] % 2 = 1
    THEN IF Len(data) < 3 THEN -1 ELSE data[3] + 256 * data[2]
    ELSE IF Len(data) < 2 THEN -1 ELSE data[2]

\* parseHeartRate(data); a read past the end of the buffer throws (-1)
parseHeartRate(data) ==
  IF Len(data) < 1 THEN -1
  ELSE IF data[1] % 2 = 1
    THEN IF Len(data) < 3 THEN -1 ELSE data[2] + 256 * data[3]
    ELSE IF Len(data) < 2 THEN -1 ELSE data[2]

\* parseBloodPressure reading the two values from offsets 0 and 2
parseBloodPressureNoFlags(data) ==
  IF ~Fits(data, 0, 1) \/ ~Fits(data, 1, 2) \/ ~Fits(data, 3, 2)
    THEN [systolic |-> -1, diastolic |-> -1]
    ELSE [systolic |-> getUint16(data, 0), diastolic |-> getUint16(data, 2)]

\* parseBloodPressure(data), in tenths of mmHg: the double raw / 10 is held
\* as the integer number of tenths it stands for (raw / 10 * 10 = raw in
\* double arithmetic for every raw in 0..65535); a thrown read is -1
parseBloodPressure(data) ==
  IF ~Fits(data, 0, 1) \/ ~Fits(data, 1, 2) \/ ~Fits(data, 3, 2)
    THEN [systolic |-> -1, diastolic |-> -1]
    ELSE [systolic |-> getUint16(data, 1), diastolic |-> getUint16(data, 3)]

\* parseTemperature(data), in hundredths of a degree, for a buffer the read
\* fits in (the signed result leaves no value to stand for a thrown read)
parseTemperature(data) == getInt32(data, 0)

\* parseOxygenSaturation(data); a thrown read is -1
parseOxygenSaturation(data) == IF ~Fits(data, 0, 1) THEN -1 ELSE getUint8(data, 0)

\* parseBatteryLevel(data); a thrown read is -1
parseBatteryLevel(data) == IF ~Fits(data, 0, 1) THEN -1 ELSE getUint8(data, 0)

\* the parser called for the characteristic throws
ParseThrows(uuid, data) ==
  CASE uuid = HEART_RATE_MEASUREMENT -> parseHeartRate(data) < 0
    [] uuid = BLOOD_PRESSURE_MEASUREMENT -> parseBloodPressure(data).systolic < 0
    [] uuid = TEMPERATURE_MEASUREMENT -> ~Fits(data, 0, 4)
    [] uuid = OXYGEN_SATURATION -> parseOxygenSaturation(data) < 0
    [] uuid = BATTERY_LEVEL -> parseBatteryLevel(data) < 0
    [] OTHER -> FALSE

\* let healthData: Partial<HealthDataPacket> after the switch: the keys set
\* and their values
healthData(uuid, data) ==
  CASE uuid = HEART_RATE_MEASUREMENT ->
         [k \in {"heartRate"} |-> parseHeartRate(data)]
    [] uuid = BLOOD_PRESSURE_MEASUREMENT ->
         [k \in {"bloodPressureSystolic", "bloodPressureDiastolic"} |->
            IF k = "bloodPressureSystolic" THEN parseBloodPressure(data).systolic
            ELSE parseBloodPressure(data).diastolic]
    [] uuid = TEMPERATURE_MEASUREMENT ->
         [k \in {"temperature"} |-> parseTemperature(data)]
    [] uuid = OXYGEN_SATURATION ->
         [k \in {"oxygenLevel"} |-> parseOxygenSaturation(data)]
    [] uuid = BATTERY_LEVEL ->
         [k \in {"batteryLevel"} |-> parseBatteryLevel(data)]
    [] OTHER -> [k \in {} |-> 0]

\* healthData.k || 0 with a key left unset taking the value of a key set
OrParsed(hd, k) ==
  IF k \in DOMAIN hd THEN hd[k] ELSE hd[CHOOSE j \in DOMAIN hd : TRUE]

\* healthData.k || 0
OrZero(hd, k) == IF k \in DOMAIN hd /\ hd[k] # 0 THEN hd[k] ELSE 0

\* const packet: HealthDataPacket; source is the link the value came over
Packet(hd, source) ==
  [heartRate |-> OrZero(hd, "heartRate"),
   bloodPressureSystolic |-> OrZero(hd, "bloodPressureSystolic"),
   bloodPressureDiastolic |-> OrZero(hd, "bloodPressureDiastolic"),
   temperature |-> OrZero(hd, "temperature"),
   oxygenLevel |-> OrZero(hd, "oxygenLevel"),
   batteryLevel |-> OrZero(hd, "batteryLevel"),
   deviceId |-> connectedDevice.id,
   source |-> source]

\* handleCharacteristicValue without the test for meaningful data: a packet
\* is emitted also when the switch set no key
handleCharacteristicValueAlwaysEmits(m, uuid, value) ==
  IF value = <<>>
    THEN <<>>
    ELSE IF ParseThrows(uuid, value)
      THEN emit(<<>>, "onError", "parse", connectionState)
      ELSE emit(<<>>, "onHealthDataReceived",
                Packet(healthData(uuid, value), m.dev), connectionState)

\* handleCharacteristicValue(characteristic) called by the listener of
\* monitor m with a characteristic of the given uuid and decoded value
handleCharacteristicValue(m, uuid, value) ==
  IF value = <<>>
    THEN <<>>
    ELSE IF ParseThrows(uuid, value)
      THEN emit(<<>>, "onError", "parse", connectionState)
      ELSE IF DOMAIN healthData(uuid, value) = {}
        THEN <<>>
        ELSE emit(<<>>, "onHealthDataReceived",
                  Packet(healthData(uuid, value), m.dev), connectionState)

\* a notification of a live monitor reaches its listener
Notification(m, value) ==
  /\ m \in monitors /\ m.dev \in links
  /\ emitted' = handleCharacteristicValue(m, HEART_RATE_MEASUREMENT, value)
  /\ returned' = <<>>
  /\ UNCHANGED <<managerVars, transportVars, timerVars, calls,
                 chainVars>>
  /\ Announce

\* decoded characteristic values handed to the parsers: flags and value
\* bytes of a heart-rate measurement, of a blood-pressure measurement
\* (1200 = <<176, 4>>, 800 = <<32, 3>>) and of a temperature
\* (3662 = <<78, 14, 0, 0>>)
HeartRatePayloads ==
  {<<f, a, b>> : f \in {0, 1, 2, 3}, a \in {0, 72, 255}, b \in {0, 1, 255}}
    \cup {<<f, a>> : f \in {0, 1}, a \in {0, 72, 255}}
    \cup {<<f>> : f \in {0, 1}}
BloodPressureField == {<<0, 0>>, <<176, 4>>, <<32, 3>>, <<255, 255>>}
BloodPressurePayloads ==
  {<<f>> \o s \o d : f \in {0, 1}, s \in BloodPressureField, d \in BloodPressureField}
    \cup {<<0, 176, 4, 32>>}
TemperaturePayloads ==
  {<<a, b, c, d>> : a \in {0, 78, 255}, b \in {0, 14, 255}, c \in {0, 255},
                    d \in {0, 128, 255}}
    \cup {<<78, 14, 0>>}
PercentagePayloads == {<<0>>, <<98>>, <<255>>}
\* the values tried for a characteristic; <<>> is an empty value
VitalsPayloads(uuid) ==
  {<<>>} \cup
  CASE uuid = HEART_RATE_MEASUREMENT -> HeartRatePayloads
    [] uuid = BLOOD_PRESSURE_MEASUREMENT -> BloodPressurePayloads
    [] uuid = TEMPERATURE_MEASUREMENT -> TemperaturePayloads
    [] OTHER -> PercentagePayloads

\* handleCharacteristicValue applied to a characteristic of any uuid and
\* value delivered over a live link
CharacteristicValue(m, uuid, value) ==
  /\ m \in monitors /\ m.dev \in links
  /\ emitted' = handleCharacteristicValue(m, uuid, value)
  /\ returned' = <<>>
  /\ UNCHANGED <<managerVars, transportVars, timerVars, calls,
                 chainVars>>
  /\ Announce

\* ------------------------------------------------------------ reconnection
\* attemptReconnect() up to its await; second: the invocation comes from
\* outside the timer chain and is not the first such invocation
attemptReconnect(second) ==
  LET broken == chainBroken \/ second \/
                (reconnectAttempts < maxReconnectAttempts /\ connectedDevice = NoDevice)
      Record(entry) == IF broken THEN reconnectTrace ELSE Append(reconnectTrace, entry)
  IN
  /\ chainBroken' = broken
  /\ IF reconnectAttempts >= maxReconnectAttempts
       THEN LET r == setConnectionState(connectionState, <<>>, "disconnected") IN
            /\ connectionState' = r.state
            /\ emitted' = r.log
            /\ returned' = <<>>
            /\ reconnectTrace' = Record(<<"giveup", r.state>>)
            /\ UNCHANGED <<reconnectAttempts, calls>>
       ELSE /\ reconnectAttempts' = reconnectAttempts + 1
            /\ IF connectedDevice # NoDevice
                 THEN /\ connectToDeviceBegin(connectedDevice.id, "reconnect")
                      /\ reconnectTrace' = Record(<<"attempt", reconnectAttempts + 1>>)
                 ELSE /\ emitted' = <<>>
                      /\ returned' = <<>>
                      /\ UNCHANGED <<connectionState, calls, reconnectTrace>>

\* attemptReconnect() invoked from outside its own timer chain (the
\* transport-level disconnect signal the method is written for)
AttemptReconnect ==
  /\ triggers < MaxTriggers
  /\ triggers' = triggers + 1
  /\ attemptReconnect(triggers > 0)
  /\ UNCHANGED <<connectedDevice, isScanning, reconnectTimeout, scanSubscription,
                 notificationSubscriptions, transportVars, timerVars>>
  /\ Announce

\* the i-th pending reconnect timer fires
ReconnectTimer(i) ==
  /\ i \in 1..Len(reconnectTimers)
  /\ reconnectTimers' = [j \in 1..(Len(reconnectTimers) - 1) |->
                           IF j < i THEN reconnectTimers[j] ELSE reconnectTimers[j + 1]]
  /\ handlePending' = (handlePending /\ i # Len(reconnectTimers))
  /\ attemptReconnect(FALSE)
  /\ UNCHANGED <<connectedDevice, isScanning, reconnectTimeout, scanSubscription,
                 notificationSubscriptions, transportVars, scanTimers,
                 triggers>>
  /\ Announce

\* ------------------------------------------------------------ adapter state
\* onStateChange listener, State.PoweredOff; the transport drops its
\* connections, monitors and scan
PowerOff ==
  /\ btOn
  /\ btOn' = FALSE
  /\ links' = {}
  /\ monitors' = {}
  /\ bleScanning' = FALSE
  /\ LET r == setConnectionState(connectionState, <<>>, "error") IN
       /\ connectionState' = r.state
       /\ emitted' = emit(r.log, "onError", "poweredOff", r.state)
  /\ returned' = <<>>
  /\ UNCHANGED <<connectedDevice, isScanning, reconnectAttempts, reconnectTimeout,
                 scanSubscription, notificationSubscriptions, timerVars,
                 calls, chainVars>>
  /\ Announce

\* onStateChange listener, any other state: only logs
PowerOn ==
  /\ ~btOn
  /\ btOn' = TRUE
  /\ emitted' = <<>>
  /\ returned' = <<>>
  /\ UNCHANGED <<managerVars, bleScanning, links, monitors, timerVars,
                 calls, chainVars>>
  /\ Announce

\* ----------------------------------------------------------------- cleanup
\* cleanup(), after its two awaits: clearTimeout(this.reconnectTimeout) and
\* this.events = {}
cleanupFinish ==
  /\ reconnectTimers' = IF reconnectTimeout /\ handlePending
                          THEN SubSeq(reconnectTimers, 1, Len(reconnectTimers) - 1)
                          ELSE reconnectTimers
  /\ handlePending' = FALSE
  /\ reconnectTimeout' = FALSE
  /\ events' = [e \in EventNames |-> NoHandler]

\* cleanup() invoked: stopScanning() and, with no device held, the rest of
\* cleanup in the same run; with a device held, disconnectFromDevice() up to
\* await cancelDeviceConnection(deviceId)
Cleanup ==
  LET sv == stopScanningResult(ScanView) IN
  /\ bleScanning' = sv.bleScanning
  /\ scanSubscription' = sv.scanSubscription
  /\ isScanning' = sv.isScanning
  /\ IF connectedDevice = NoDevice
       THEN /\ connectionState' = sv.connectionState
            /\ emitted' = sv.log
            /\ cleanupFinish
            /\ Immediate(Call("cleanup", "resolved", "", "caller", sv.connectionState))
            /\ UNCHANGED <<monitors, notificationSubscriptions>>
       ELSE LET r == setConnectionState(sv.connectionState, sv.log, "disconnecting") IN
            /\ CanSuspend
            /\ connectionState' = r.state
            /\ emitted' = r.log
            /\ monitors' = {m \in monitors : ~m.mapped}
            /\ notificationSubscriptions' = {}
            /\ Suspend(Call("cleanup", "cancel", connectedDevice.id, "caller",
                            "disconnecting"))
            /\ returned' = <<>>
            /\ UNCHANGED <<reconnectTimers, handlePending, reconnectTimeout, events>>
  /\ UNCHANGED <<connectedDevice, reconnectAttempts, btOn, links, scanTimers,
                 contextMounted, wifiConstructed, chainVars>>
  /\ Observe

\* cancelDeviceConnection settled inside cleanup(): the rest of
\* disconnectFromDevice, whose rejection cleanup catches and logs
CleanupCancelDone(t, ok) ==
  /\ calls[t].op = "cleanup" /\ calls[t].pc = "cancel"
  /\ IF ok
       THEN LET r == setConnectionState(connectionState, <<>>, "disconnected") IN
            /\ links' = links \ {calls[t].dev}
            /\ monitors' = {m \in monitors : m.dev # calls[t].dev}
            /\ connectedDevice' = NoDevice
            /\ connectionState' = r.state
            /\ emitted' = emit(r.log, "onDeviceDisconnected", calls[t].dev, r.state)
            /\ cleanupFinish
            /\ End(t, [calls[t] EXCEPT !.pc = "resolved"])
            /\ BreakChain
       ELSE LET r == setConnectionState(connectionState, <<>>, "error") IN
            /\ connectionState' = r.state
            /\ emitted' = emit(r.log, "onError", "disconnect", r.state)
            /\ End(t, [calls[t] EXCEPT !.pc = "resolved", !.failed = "transport"])
            /\ UNCHANGED <<links, monitors, connectedDevice, chainBroken,
                           reconnectTimers, handlePending, reconnectTimeout, events>>
  /\ UNCHANGED <<isScanning, reconnectAttempts, scanSubscription,
                 notificationSubscriptions, btOn, bleScanning, scanTimers,
                 triggers, reconnectTrace, contextMounted, wifiConstructed>>
  /\ Observe

\* ------------------------------------------------------- users of the bus
\* the events the Health Data Context registers for
ContextEvents ==
  {"onConnectionStateChanged", "onHealthDataReceived", "onDeviceConnected",
   "onDeviceDisconnected"}
\* the events the WiFi manager registers for
WiFiEvents == {"onDeviceConnected", "onHealthDataReceived"}
\* the events the device-selection modal registers for
ModalEvents == {"onDeviceDiscovered", "onError"}

\* on(e, h) for every e of es
onAll(evts, es, h) == [e \in EventNames |-> IF e \in es THEN on(evts, e, h)[e] ELSE evts[e]]
\* off(e) for every e of es
offAll(evts, es) == [e \in EventNames |-> IF e \in es THEN off(evts, e)[e] ELSE evts[e]]

\* a run of a component that only registers or removes handlers
Registration ==
  /\ emitted' = <<>>
  /\ returned' = <<>>
  /\ UNCHANGED <<managerVars, transportVars, timerVars, calls, chainVars>>
  /\ Observe

\* HealthDataProvider mounts: its effect registers four handlers
ContextMount ==
  /\ ~contextMounted
  /\ contextMounted' = TRUE
  /\ events' = onAll(events, ContextEvents, "context")
  /\ UNCHANGED wifiConstructed
  /\ Registration

\* HealthDataProvider unmounts: the effect's cleanup removes the four events
ContextUnmount ==
  /\ contextMounted
  /\ contextMounted' = FALSE
  /\ events' = offAll(events, ContextEvents)
  /\ UNCHANGED wifiConstructed
  /\ Registration

\* WiFiManager.getInstance() constructs the singleton: setupBluetoothIntegration
WiFiConstruct ==
  /\ ~wifiConstructed
  /\ wifiConstructed' = TRUE
  /\ events' = onAll(events, WiFiEvents, "wifi")
  /\ UNCHANGED contextMounted
  /\ Registration

\* the modal's startScanning after its own permission check: registers its
\* handlers and invokes bluetoothManager.startScanning(15000)
ModalStartScanning ==
  /\ events' = onAll(events, ModalEvents, "modal")
  /\ IF isScanning
       THEN Immediate(Call("startScanning", "resolved", "", "modal", connectionState))
       ELSE /\ CanSuspend
            /\ Suspend(Call("startScanning", "check", "", "modal", connectionState))
            /\ returned' = <<>>
  /\ emitted' = <<>>
  /\ UNCHANGED <<managerVars, transportVars, timerVars, chainVars,
                 contextMounted, wifiConstructed>>
  /\ ObserveRun
  /\ devices' = <<>>

\* the modal's stopScanning: bluetoothManager.stopScanning(), then removes
\* its handlers
ModalStopScanning ==
  /\ stopScanning
  /\ Immediate(Call("stopScanning", "resolved", "", "modal",
                    IF connectionState = "scanning"
                      THEN "disconnected" ELSE connectionState))
  /\ events' = offAll(events, ModalEvents)
  /\ UNCHANGED <<connectedDevice, reconnectAttempts, reconnectTimeout,
                 notificationSubscriptions, btOn, links, monitors,
                 timerVars, chainVars, contextMounted, wifiConstructed>>
  /\ Observe

\* ------------------------------------------------------ Health Data Context
\* setTimeout(() => setHasAlerts(false), 10000)
AlertClearDelay == 10000
\* Date.now() - 24 * 60 * 60 * 1000
RetentionWindow == 24 * 60 * 60 * 1000
\* steps of the clock: 5 seconds, 6 hours
AlertTick == 5 * 1000
HistoryTick == 6 * 60 * 60 * 1000

\* HealthDataPacket values handed to the context's handler, stamped with the
\* time t of their creation; blood pressure in tenths of mmHg, temperature
\* in hundredths of a degree: all vitals inside their bounds, all on a
\* bound, a heart-rate reading of the manager (other fields 0), an
\* oxygen-saturation reading of the manager below its bound
HealthDataPacket(hr, sys, dia, temp, ox, t) ==
  [heartRate |-> hr, bloodPressureSystolic |-> sys, bloodPressureDiastolic |-> dia,
   temperature |-> temp, oxygenLevel |-> ox, batteryLevel |-> 0,
   timestamp |-> t, deviceId |-> "A"]
ContextPackets(t) ==
  {HealthDataPacket(72, 1200, 800, 3662, 98, t),
   HealthDataPacket(60, 1400, 900, 3750, 95, t),
   HealthDataPacket(72, 0, 0, 0, 0, t),
   HealthDataPacket(0, 0, 0, 0, 94, t)}

\* checkForAlerts with every comparison including its bound
checkForAlertsInclusive(data) ==
  (IF data.heartRate <= 60 \/ data.heartRate >= 100
     THEN <<"Abnormal heart rate detected">> ELSE <<>>)
  \o (IF data.bloodPressureSystolic >= 1400 \/ data.bloodPressureDiastolic >= 900
        THEN <<"High blood pressure detected">> ELSE <<>>)
  \o (IF data.temperature <= 3600 \/ data.temperature >= 3750
        THEN <<"Abnormal body temperature">> ELSE <<>>)
  \o (IF data.oxygenLevel <= 95 THEN <<"Low oxygen saturation">> ELSE <<>>)

\* a checkForAlerts that skips a vital the packet has as 0
checkForAlertsKnown(data) ==
  (IF data.heartRate # 0 /\ (data.heartRate < 60 \/ data.heartRate > 100)
     THEN <<"Abnormal heart rate detected">> ELSE <<>>)
  \o (IF data.bloodPressureSystolic > 1400 \/ data.bloodPressureDiastolic > 900
        THEN <<"High blood pressure detected">> ELSE <<>>)
  \o (IF data.temperature # 0 /\ (data.temperature < 3600 \/ data.temperature > 3750)
        THEN <<"Abnormal body temperature">> ELSE <<>>)
  \o (IF data.oxygenLevel # 0 /\ data.oxygenLevel < 95
        THEN <<"Low oxygen saturation">> ELSE <<>>)

\* checkForAlerts(data): the alerts array
checkForAlerts(data) ==
  (IF data.heartRate < 60 \/ data.heartRate > 100
     THEN <<"Abnormal heart rate detected">> ELSE <<>>)
  \o (IF data.bloodPressureSystolic > 1400 \/ data.bloodPressureDiastolic > 900
        THEN <<"High blood pressure detected">> ELSE <<>>)
  \o (IF data.temperature < 3600 \/ data.temperature > 3750
        THEN <<"Abnormal body temperature">> ELSE <<>>)
  \o (IF data.oxygenLevel < 95 THEN <<"Low oxygen saturation">> ELSE <<>>)

\* setCurrentData keeping the previous value of a vital the packet has as 0
setCurrentDataMerged(prev, data) ==
  [heartRate |-> IF data.heartRate = 0 THEN prev.heartRate ELSE data.heartRate,
   bloodPressureSystolic |-> IF data.bloodPressureSystolic = 0
                               THEN prev.bloodPressureSystolic
                               ELSE data.bloodPressureSystolic,
   bloodPressureDiastolic |-> IF data.bloodPressureDiastolic = 0
                                THEN prev.bloodPressureDiastolic
                                ELSE data.bloodPressureDiastolic,
   temperature |-> IF data.temperature = 0 THEN prev.temperature ELSE data.temperature,
   oxygenLevel |-> IF data.oxygenLevel = 0 THEN prev.oxygenLevel ELSE data.oxygenLevel,
   lastUpdated |-> data.timestamp]

\* setCurrentData({...}) of the onHealthDataReceived handler
setCurrentData(prev, data) ==
  [heartRate |-> data.heartRate,
   bloodPressureSystolic |-> data.bloodPressureSystolic,
   bloodPressureDiastolic |-> data.bloodPressureDiastolic,
   temperature |-> data.temperature,
   oxygenLevel |-> data.oxygenLevel,
   lastUpdated |-> data.timestamp]

\* the entry pushed to the history
HistoricalEntry(data) ==
  [timestamp |-> data.timestamp, heartRate |-> data.heartRate,
   oxygenLevel |-> data.oxygenLevel, temperature |-> data.temperature]

\* setHistoricalData keeping the entries that are exactly 24 hours old
setHistoricalDataInclusive(prev, data, t) ==
  SelectSeq(Append(prev, HistoricalEntry(data)),
            LAMBDA item : item.timestamp >= t - RetentionWindow)

\* setHistoricalData(prev => ...) at time t
setHistoricalData(prev, data, t) ==
  SelectSeq(Append(prev, HistoricalEntry(data)),
            LAMBDA item : item.timestamp > t - RetentionWindow)

\* the manager emits onHealthDataReceived(data) (handleCharacteristicValue)
\* and the context's handler runs inside the emit
HealthDataReceived(data) ==
  /\ events["onHealthDataReceived"] = "context"
  /\ packetsHandled < MaxPackets
  /\ emitted' = emit(<<>>, "onHealthDataReceived", data, connectionState)
  /\ returned' = <<>>
  /\ currentData' = setCurrentData(currentData, data)
  /\ historicalData' = setHistoricalData(historicalData, data, now)
  /\ IF Len(checkForAlerts(data)) > 0
       THEN /\ hasAlerts' = TRUE
            /\ alertTimers' = Append(alertTimers, now + AlertClearDelay)
       ELSE UNCHANGED <<hasAlerts, alertTimers>>
  /\ packetsHandled' = packetsHandled + 1
  /\ UNCHANGED <<managerVars, transportVars, timerVars, calls, chainVars,
                 busVars, devices, now, answered, api, asyncStorage, storeVars>>
  /\ ObserveBus

\* the packet as the handler receives it: timestamp: new Date()
Stamped(packet, t) ==
  [k \in DOMAIN packet \cup {"timestamp"} |->
     IF k = "timestamp" THEN t ELSE packet[k]]

\* values delivered to the manager while the context listens: a heart rate
\* of 72, a blood pressure of 120.0 / 80.0, a temperature of 36.62, an oxygen
\* saturation and a battery level of 98, an empty value
ContextPayloads(uuid) ==
  CASE uuid = HEART_RATE_MEASUREMENT -> {<<0, 72>>, <<>>}
    [] uuid = BLOOD_PRESSURE_MEASUREMENT -> {<<0, 176, 4, 32, 3>>}
    [] uuid = TEMPERATURE_MEASUREMENT -> {<<78, 14, 0, 0>>}
    [] OTHER -> {<<98>>}

\* a characteristic value reaches the manager: handleCharacteristicValue, and
\* inside its emit the context's handler of onHealthDataReceived
VitalsReceived(m, uuid, value) ==
  LET lg == handleCharacteristicValue(m, uuid, value)
      heard == /\ lg # <<>>
               /\ lg[1].ev = "onHealthDataReceived"
               /\ events["onHealthDataReceived"] = "context"
      data == Stamped(lg[1].arg, now) IN
  /\ m \in monitors /\ m.dev \in links
  /\ packetsHandled < MaxPackets
  /\ emitted' = lg
  /\ returned' = <<>>
  /\ IF heard
       THEN /\ currentData' = setCurrentData(currentData, data)
            /\ historicalData' = setHistoricalData(historicalData, data, now)
            /\ IF Len(checkForAlerts(data)) > 0
                 THEN /\ hasAlerts' = TRUE
                      /\ alertTimers' = Append(alertTimers, now + AlertClearDelay)
                 ELSE UNCHANGED <<hasAlerts, alertTimers>>
            /\ packetsHandled' = packetsHandled + 1
       ELSE UNCHANGED <<currentData, historicalData, hasAlerts, alertTimers,
                        packetsHandled>>
  /\ UNCHANGED <<managerVars, transportVars, timerVars, calls, chainVars,
                 busVars, devices, now, answered, api, asyncStorage, storeVars>>
  /\ ObserveBus

\* the oldest pending timer of checkForAlerts fires: setHasAlerts(false)
AlertTimerFires ==
  /\ alertTimers # <<>>
  /\ Head(alertTimers) <= now
  /\ hasAlerts' = FALSE
  /\ alertTimers' = Tail(alertTimers)
  /\ UNCHANGED <<now, currentData, historicalData, packetsHandled, devices,
                 managerVars, transportVars, timerVars, calls, chainVars,
                 busVars, emitted, returned, announced, scanOnly, delivered,
                 answered, api, asyncStorage, overlap, contextLink, storeVars>>

\* time passes while the provider is mounted: dt at most, and not beyond the
\* time the next alert timer is due, which fires before time goes on
Tick(dt) ==
  /\ contextMounted
  /\ IF alertTimers = <<>> THEN TRUE ELSE Head(alertTimers) > now
  /\ now + dt <= MaxTicks * dt
  /\ now' = IF alertTimers = <<>> THEN now + dt
            ELSE IF Head(alertTimers) < now + dt THEN Head(alertTimers)
            ELSE now + dt
  /\ UNCHANGED <<hasAlerts, alertTimers, currentData, historicalData,
                 packetsHandled, devices,
                 managerVars, transportVars, timerVars, calls, chainVars,
                 busVars, emitted, returned, announced, scanOnly, delivered,
                 answered, api, asyncStorage, overlap, contextLink, storeVars>>

\* -------------------------------------------------------------- permissions
\* Platform.OS; the permissions asked for on Android; what
\* PermissionsAndroid.request / requestMultiple and PermissionsAndroid.check
\* answer for one permission ("rejects": the promise rejects)
Platforms == {"android", "ios"}
AndroidPermissions == {"BLUETOOTH_SCAN", "BLUETOOTH_CONNECT", "ACCESS_FINE_LOCATION"}
RequestAnswers == {"granted", "denied", "never_ask_again", "rejects"}
CheckAnswers == {"true", "false", "rejects"}

\* what a permission function returns or throws; emits: its emit()s
Granted(b) == [threw |-> FALSE, granted |-> b, emits |-> <<>>]

\* requestAllPermissions reporting granted when some permission is granted
requestAllPermissionsSome(os, ans) ==
  IF os = "android"
    THEN Granted(\E p \in AndroidPermissions : ans[p] = "granted")
    ELSE Granted(TRUE)

\* BluetoothPermissions.requestAllPermissions(): a request that rejects is
\* caught per permission and recorded as false
requestAllPermissions(os, ans) ==
  IF os = "android"
    THEN LET permissions == [p \in AndroidPermissions |-> ans[p] = "granted"] IN
         Granted(\A p \in AndroidPermissions : permissions[p])
    ELSE Granted(TRUE)

\* BluetoothPermissions.checkAllPermissions()
checkAllPermissions(os, ans) ==
  IF os = "android"
    THEN LET permissions == [p \in AndroidPermissions |-> ans[p] = "true"] IN
         Granted(\A p \in AndroidPermissions : permissions[p])
    ELSE Granted(TRUE)

\* BluetoothManager.requestPermissions(): requestMultiple rejects as a whole,
\* the catch block emits onError and returns false
requestPermissions(os, ans) ==
  IF os = "android"
    THEN IF \E p \in AndroidPermissions : ans[p] = "rejects"
           THEN [threw |-> FALSE, granted |-> FALSE,
                 emits |-> emit(<<>>, "onError", "permissions", connectionState)]
           ELSE Granted(\A p \in AndroidPermissions : ans[p] = "granted")
    ELSE Granted(TRUE)

\* BluetoothManager.checkPermissions(): Promise.all rejects when a check does
checkPermissions(os, ans) ==
  IF os = "android"
    THEN IF \E p \in AndroidPermissions : ans[p] = "rejects"
           THEN Granted(FALSE)
           ELSE Granted(\A p \in AndroidPermissions : ans[p] = "true")
    ELSE Granted(TRUE)

PermissionFunctions ==
  {"requestAllPermissions", "checkAllPermissions", "requestPermissions",
   "checkPermissions"}

\* one of the four permission functions is called on platform os, the
\* system answers ans, and the call ends
PermissionsCall(fn, os, ans) ==
  LET r == CASE fn = "requestAllPermissions" -> requestAllPermissions(os, ans)
             [] fn = "checkAllPermissions" -> checkAllPermissions(os, ans)
             [] fn = "requestPermissions" -> requestPermissions(os, ans)
             [] fn = "checkPermissions" -> checkPermissions(os, ans)
  IN
  /\ answered' = [fn |-> fn, os |-> os, answers |-> ans, result |-> r]
  /\ emitted' = r.emits
  /\ returned' = <<>>
  /\ UNCHANGED <<managerVars, transportVars, timerVars, calls, chainVars,
                 busVars, devices, contextVars, api, asyncStorage, storeVars>>
  /\ ObserveBus

\* --------------------------------------------------------------- API client
\* retryConfig
maxRetries == 3
retryDelay == 1000

Methods == {"GET", "POST", "PUT", "PATCH", "DELETE"}
\* what the server answers to one request; NoResponse: the request failed
\* without a response (network error, timeout)
NoResponse == 0
Statuses == {NoResponse, 200, 400, 401, 403, 404, 422, 429, 500, 503}

\* the error axios rejects with for a request answered with status
AxiosError(status) ==
  [name |-> "AxiosError",
   response |-> [present |-> status # NoResponse, status |-> status]]

\* an instance of one of the custom error classes: no response property
TypedError(name) == [name |-> name, response |-> [present |-> FALSE, status |-> 0]]

\* ApiClient.transformError(error)
transformError(error) ==
  IF ~error.response.present THEN TypedError("NetworkError")
  ELSE LET status == error.response.status IN
       CASE status \in {400, 422} -> TypedError("ValidationError")
         [] status \in {401, 403} -> TypedError("AuthError")
         [] status \in {404, 429} -> TypedError("NetworkError")
         [] status \in {500, 502, 503} -> TypedError("ServerError")
         [] OTHER -> TypedError("NetworkError")

\* retryConfig.retryCondition(error)
retryCondition(error) ==
  IF ~error.response.present THEN TRUE
  ELSE error.response.status >= 500 /\ error.response.status < 600

StorageRun ==
  /\ emitted' = <<>>
  /\ returned' = <<>>
  /\ UNCHANGED <<managerVars, transportVars, timerVars, calls, chainVars,
                 busVars, devices, contextVars>>
  /\ ObserveBus

ServiceRun ==
  /\ UNCHANGED storeVars
  /\ StorageRun

\* apiClient.get / post / put / patch / delete: retryRequest(config) issues
\* the first request
ApiCall(method) ==
  /\ api.pc \in {"idle", "resolved", "rejected"}
  /\ api' = [ApiIdle EXCEPT !.pc = "request", !.method = method,
                            !.requests = 1, !.authToken = api.authToken]
  /\ UNCHANGED <<answered, asyncStorage>>
  /\ ServiceRun

\* the request in flight is answered: a 2xx resolves the call; any other
\* outcome goes through the response interceptor's error branch and then
\* through the catch block of retryRequest
ApiResponse(status) ==
  /\ api.pc = "request"
  /\ LET error == transformError(AxiosError(status))
         seen == [api EXCEPT !.statuses = Append(@, status)] IN
     api' = IF status \in 200..299
              THEN [seen EXCEPT !.pc = "resolved"]
            ELSE LET failed == [seen EXCEPT !.error = error,
                                 !.authToken = IF status = 401 THEN FALSE ELSE @] IN
                 IF api.retryCount < maxRetries /\ retryCondition(error)
                   THEN [failed EXCEPT !.pc = "delay",
                           !.delays = Append(@, retryDelay * (api.retryCount + 1))]
                   ELSE [failed EXCEPT !.pc = "rejected"]
  /\ UNCHANGED <<answered, asyncStorage>>
  /\ ServiceRun

\* the setTimeout of retryRequest fires: retryRequest(config, retryCount + 1)
ApiDelayElapses ==
  /\ api.pc = "delay"
  /\ api' = [api EXCEPT !.pc = "request", !.retryCount = @ + 1,
                        !.requests = @ + 1]
  /\ UNCHANGED <<answered, asyncStorage>>
  /\ ServiceRun

\* ------------------------------------------------------------ async storage
\* A JavaScript value: its type and, for a string, its characters, for any
\* other value, its JSON text
Value(type, repr) == [type |-> type, repr |-> repr]
Null == Value("null", "null")

\* the values handed to setItem
StoredValues ==
  {Value("number", "123"), Value("boolean", "true"), Null,
   Value("object", "{\"theme\":\"dark\"}"), Value("array", "[1,2]"),
   Value("string", "dark"), Value("string", ""), Value("string", "123"),
   Value("string", "true"), Value("string", "null"),
   Value("string", "{\"theme\":\"dark\"}"), Value("string", "\"dark\"")}

\* JSON.stringify(value) of a value that is not a string
JSONstringify(value) == value.repr

\* JSON.parse(text): the value whose JSON text it is; it throws for a text
\* that is not JSON
JSONparse(text) ==
  CASE text = "123" -> [threw |-> FALSE, value |-> Value("number", "123")]
    [] text = "true" -> [threw |-> FALSE, value |-> Value("boolean", "true")]
    [] text = "null" -> [threw |-> FALSE, value |-> Null]
    [] text = "{\"theme\":\"dark\"}" ->
         [threw |-> FALSE, value |-> Value("object", "{\"theme\":\"dark\"}")]
    [] text = "[1,2]" -> [threw |-> FALSE, value |-> Value("array", "[1,2]")]
    [] text = "\"dark\"" -> [threw |-> FALSE, value |-> Value("string", "dark")]
    [] OTHER -> [threw |-> TRUE, value |-> Null]

\* setItem: const stringValue = typeof value === 'string' ? value : JSON.stringify(value)
stringValue(value) ==
  IF value.type = "string" THEN value.repr ELSE JSONstringify(value)

\* getItem(key) for what AsyncStorage holds under the key
getItem(item) ==
  IF ~item.present THEN Null
  ELSE LET parsed == JSONparse(item.text) IN
       IF parsed.threw THEN Value("string", item.text) ELSE parsed.value

\* AsyncStorageService.setItem(key, value); the entry also remembers the
\* value setItem was called with
SetItem(key, value) ==
  /\ asyncStorage' = [asyncStorage EXCEPT ![key] =
                        [text |-> stringValue(value), value |-> value,
                         present |-> TRUE]]
  /\ answered' = [fn |-> "setItem", key |-> key, result |-> value]
  /\ UNCHANGED api
  /\ ServiceRun

\* AsyncStorageService.getItem(key)
GetItem(key) ==
  /\ answered' = [fn |-> "getItem", key |-> key,
                  result |-> getItem(asyncStorage[key])]
  /\ UNCHANGED <<api, asyncStorage>>
  /\ ServiceRun

\* AsyncStorageService.removeItem(key)
RemoveItem(key) ==
  /\ asyncStorage' = [asyncStorage EXCEPT ![key] = Absent]
  /\ answered' = [fn |-> "removeItem", key |-> key, result |-> Null]
  /\ UNCHANGED api
  /\ ServiceRun

\* ----------------------------------------------------------- storage facade
\* the values handed to storeData
FacadeValues == {Value("string", "u1"), Value("object", "{\"theme\":\"dark\"}")}

\* what an item holds after set(key, value) stored text for it
Item(text, value) == [text |-> text, value |-> value, present |-> TRUE]

\* StorageService.getData(category, key) for what the two stores hold
getData(category, key, secure, general) ==
  IF category = SENSITIVE
    THEN LET item == secure[storageKey(category, key)] IN
         IF item.present /\ item.text # ""
           THEN LET parsed == JSONparse(item.text) IN
                IF parsed.threw THEN Value("string", item.text) ELSE parsed.value
           ELSE Null
    ELSE getItem(general[storageKey(category, key)])

\* StorageService.storeData(category, key, value)
StoreData(category, key, value) ==
  /\ IF category = SENSITIVE
       THEN /\ secureStore' =
                 [secureStore EXCEPT ![storageKey(category, key)] =
                    Item(IF value.type = "string" THEN value.repr
                         ELSE JSONstringify(value), value)]
            /\ UNCHANGED asyncStorage
       ELSE /\ asyncStorage' =
                 [asyncStorage EXCEPT ![storageKey(category, key)] =
                    Item(stringValue(value), value)]
            /\ UNCHANGED secureStore
  /\ answered' = [fn |-> "storeData", category |-> category, key |-> key,
                  result |-> Null, rejected |-> FALSE]
  /\ UNCHANGED <<api, pendingSync, offlineCalls>>
  /\ StorageRun

\* StorageService.getData(category, key)
GetData(category, key) ==
  /\ answered' = [fn |-> "getData", category |-> category, key |-> key,
                  result |-> getData(category, key, secureStore, asyncStorage),
                  rejected |-> FALSE]
  /\ UNCHANGED <<api, asyncStorage>>
  /\ ServiceRun

\* storeOfflineHealthData: pendingSync.push(item), then the splice that
\* keeps the last pendingSyncCap items
pushed(read, item) ==
  LET all == Append(read, item) IN
  IF Len(all) > pendingSyncCap
    THEN SubSeq(all, Len(all) - pendingSyncCap + 1, Len(all))
    ELSE all

\* the invocations of storeOfflineHealthData that have not ended
OpenOffline == {i \in 1..Len(offlineCalls) : offlineCalls[i].pc = "read"}

\* storeOfflineHealthData(data) is invoked and its getData resolves with
\* the array stored at that time (|| [] when there is none)
StoreOfflineRead ==
  /\ Len(offlineCalls) < MaxOffline
  /\ offlineCalls' =
       Append(offlineCalls,
              [item |-> pendingSyncCap + Len(offlineCalls) + 1,
               read |-> pendingSync.items, pc |-> "read"])
  /\ UNCHANGED <<answered, api, asyncStorage, secureStore, pendingSync>>
  /\ StorageRun

\* the invocation that has been waiting longest goes on after its read: it
\* pushes its item, cuts the array to the cap and stores it; the call
\* resolves, or rejects when AsyncStorage.setItem throws
StoreOfflineWrite(threw) ==
  /\ OpenOffline # {}
  /\ LET i == CHOOSE k \in OpenOffline : \A l \in OpenOffline : k <= l
         call == offlineCalls[i] IN
     /\ pendingSync' =
          IF threw THEN pendingSync
          ELSE [present |-> TRUE, items |-> pushed(call.read, call.item)]
     /\ offlineCalls' =
          [offlineCalls EXCEPT ![i] =
             [item |-> call.item, read |-> <<>>,
              pc |-> IF threw THEN "rejected" ELSE "resolved"]]
     /\ answered' = [fn |-> "storeOfflineHealthData", item |-> call.item,
                     rejected |-> threw]
  /\ UNCHANGED <<api, asyncStorage, secureStore>>
  /\ StorageRun

\* StorageService.getOfflineHealthData()
GetOfflineHealthData ==
  /\ answered' = [fn |-> "getOfflineHealthData", result |-> pendingSync.items]
  /\ UNCHANGED <<api, asyncStorage>>
  /\ ServiceRun

\* SecureStorageService.clearAll(): removeItem for each of knownKeys
secureClearAll(secure) ==
  [k \in DOMAIN secure |-> IF k \in knownKeys THEN Absent ELSE secure[k]]

\* AsyncStorageService.clearAll(): multiRemove of the keys that start with
\* PREFIX, which are all the keys AsyncStorageService has written
asyncClearAll(general) == [k \in DOMAIN general |-> Absent]

\* StorageService.clearAll(): both clearAll run under Promise.all. With threw,
\* SecureStore.deleteItemAsync throws: removeItem rethrows and clearAll
\* rejects, while the general store is cleared all the same
ClearAll(threw) ==
  /\ secureStore' = IF threw THEN secureStore ELSE secureClearAll(secureStore)
  /\ asyncStorage' = asyncClearAll(asyncStorage)
  /\ pendingSync' = NoQueue
  /\ answered' = [fn |-> "clearAll", category |-> "", key |-> "",
                  result |-> Null, rejected |-> threw]
  /\ UNCHANGED <<api, offlineCalls>>
  /\ StorageRun

\* ---------------------------------------------------------- specifications
\* The manager as the application drives it: callers scan, connect and
\* disconnect, the transport answers, delivers notifications and changes its
\* adapter state. attemptReconnect is private and invoked only by the timer
\* it schedules itself, so it never runs here.
Next ==
  \/ StartScanningAlready
  \/ StartScanningCheck
  \/ \E t \in 1..Len(calls), has \in BOOLEAN : CheckPermissionsDone(t, has)
  \/ \E t \in 1..Len(calls), o \in {"granted", "denied", "threw"} :
       RequestPermissionsDone(t, o)
  \/ StopScanning
  \/ ScanTimeout
  \/ ScanError
  \/ \E d \in Devices : DeviceDiscovered(d)
  \/ \E d \in Devices : ConnectToDevice(d)
  \/ \E t \in 1..Len(calls), ok \in BOOLEAN : TransportConnectDone(t, ok)
  \/ \E t \in 1..Len(calls), ok \in BOOLEAN, setupOk \in BOOLEAN :
       DiscoveryDone(t, ok, setupOk)
  \/ DisconnectNoDevice
  \/ DisconnectFromDevice
  \/ \E t \in 1..Len(calls), ok \in BOOLEAN : CancelConnectionDone(t, ok)
  \/ \E m \in monitors, value \in Payloads : Notification(m, value)
  \/ PowerOff
  \/ PowerOn

Spec == Init /\ [][Next]_vars

\* The reconnect policy: connects by callers and by attemptReconnect, with
\* attemptReconnect invoked from outside as well as by its timers.
NextReconnect ==
  \/ \E d \in Devices : ConnectToDevice(d)
  \/ \E t \in 1..Len(calls), ok \in BOOLEAN : TransportConnectDone(t, ok)
  \/ \E t \in 1..Len(calls), ok \in BOOLEAN, setupOk \in BOOLEAN :
       DiscoveryDone(t, ok, setupOk)
  \/ AttemptReconnect
  \/ \E i \in 1..Len(reconnectTimers) : ReconnectTimer(i)

SpecReconnect == Init /\ [][NextReconnect]_vars

\* Scanning next to connecting, with the event loop running every timeout
\* that startScanning scheduled.
NextScan ==
  \/ StartScanningAlready
  \/ StartScanningCheck
  \/ \E t \in 1..Len(calls), has \in BOOLEAN : CheckPermissionsDone(t, has)
  \/ \E t \in 1..Len(calls), o \in {"granted", "denied", "threw"} :
       RequestPermissionsDone(t, o)
  \/ StopScanning
  \/ ScanTimeout
  \/ ScanError
  \/ \E d \in Devices : DeviceDiscovered(d)
  \/ \E d \in Devices : ConnectToDevice(d)
  \/ \E t \in 1..Len(calls), ok \in BOOLEAN : TransportConnectDone(t, ok)
  \/ \E t \in 1..Len(calls), ok \in BOOLEAN, setupOk \in BOOLEAN :
       DiscoveryDone(t, ok, setupOk)

SpecScan == Init /\ [][NextScan]_vars /\ WF_vars(ScanTimeout)

\* The manager as in Spec, with callers that also run cleanup().
NextCleanup ==
  \/ Next
  \/ Cleanup
  \/ \E t \in 1..Len(calls), ok \in BOOLEAN : CleanupCancelDone(t, ok)

SpecCleanup == Init /\ [][NextCleanup]_vars

\* The manager with the components that register on its bus: the Health
\* Data Context, the WiFi manager and the device-selection modal, which
\* scans and connects.
NextApp ==
  \/ ContextMount
  \/ ContextUnmount
  \/ WiFiConstruct
  \/ ModalStartScanning
  \/ ModalStopScanning
  \/ \E t \in 1..Len(calls), has \in BOOLEAN : CheckPermissionsDone(t, has)
  \/ \E t \in 1..Len(calls), o \in {"granted", "denied", "threw"} :
       RequestPermissionsDone(t, o)
  \/ ScanTimeout
  \/ DeviceDiscovered("A")
  \/ \E d \in Devices : ConnectToDevice(d)
  \/ \E t \in 1..Len(calls), ok \in BOOLEAN : TransportConnectDone(t, ok)
  \/ \E t \in 1..Len(calls), ok \in BOOLEAN, setupOk \in BOOLEAN :
       DiscoveryDone(t, ok, setupOk)
  \/ \E m \in monitors, value \in Payloads : Notification(m, value)
  \/ DisconnectFromDevice
  \/ \E t \in 1..Len(calls), ok \in BOOLEAN : CancelConnectionDone(t, ok)

SpecApp == Init /\ [][NextApp]_vars

\* The bus alone: the Health Data Context and the WiFi manager register and
\* remove handlers while a device connects, notifies and disconnects.
NextBus ==
  \/ ContextMount
  \/ ContextUnmount
  \/ WiFiConstruct
  \/ \E d \in Devices : ConnectToDevice(d)
  \/ \E t \in 1..Len(calls), ok \in BOOLEAN : TransportConnectDone(t, ok)
  \/ \E t \in 1..Len(calls), ok \in BOOLEAN, setupOk \in BOOLEAN :
       DiscoveryDone(t, ok, setupOk)
  \/ \E m \in monitors, value \in Payloads : Notification(m, value)
  \/ DisconnectFromDevice
  \/ \E t \in 1..Len(calls), ok \in BOOLEAN : CancelConnectionDone(t, ok)

SpecBus == Init /\ [][NextBus]_vars

\* The device-selection modal scanning: it starts and stops scan sessions,
\* the transport reports devices, scan errors and the scan timeout fires.
NextModal ==
  \/ ModalStartScanning
  \/ ModalStopScanning
  \/ \E t \in 1..Len(calls), has \in BOOLEAN : CheckPermissionsDone(t, has)
  \/ \E t \in 1..Len(calls), o \in {"granted", "denied", "threw"} :
       RequestPermissionsDone(t, o)
  \/ ScanTimeout
  \/ ScanError
  \/ \E d \in Devices : DeviceDiscovered(d)
SpecModal == Init /\ [][NextModal]_vars

\* The Health Data Context handling vitals while the alert timers run,
\* second by second
NextAlert ==
  \/ ContextMount
  \/ \E data \in ContextPackets(now) : HealthDataReceived(data)
  \/ AlertTimerFires
  \/ Tick(AlertTick)
SpecAlert == Init /\ [][NextAlert]_vars

\* The Health Data Context handling vitals over more than a day
NextHistory ==
  \/ ContextMount
  \/ \E data \in ContextPackets(now) : HealthDataReceived(data)
  \/ AlertTimerFires
  \/ Tick(HistoryTick)
SpecHistory == Init /\ [][NextHistory]_vars

\* The permission functions of BluetoothPermissions and of the manager, on
\* either platform, for every combination of answers of the system
NextPermissions ==
  \/ \E fn \in {"requestAllPermissions", "requestPermissions"}, os \in Platforms :
       \E ans \in [AndroidPermissions -> RequestAnswers] : PermissionsCall(fn, os, ans)
  \/ \E fn \in {"checkAllPermissions", "checkPermissions"}, os \in Platforms :
       \E ans \in [AndroidPermissions -> CheckAnswers] : PermissionsCall(fn, os, ans)
SpecPermissions == Init /\ [][NextPermissions]_vars

\* Calls of the API client, one at a time, with every outcome of each request
NextApi ==
  \/ \E method \in Methods : ApiCall(method)
  \/ \E status \in Statuses : ApiResponse(status)
  \/ ApiDelayElapses
SpecApi == Init /\ [][NextApi]_vars

\* The general store: values are set, read and removed under two keys
NextStorage ==
  \/ \E key \in StorageKeys, value \in StoredValues : SetItem(key, value)
  \/ \E key \in StorageKeys : GetItem(key)
  \/ \E key \in StorageKeys : RemoveItem(key)
SpecStorage == Init /\ [][NextStorage]_vars

\* The Storage Facade: values are stored and read in the sensitive and the
\* general categories, and everything is cleared
NextFacade ==
  \/ \E category \in STORAGE_CATEGORIES :
       \E key \in FacadeKeys(category), value \in FacadeValues :
         StoreData(category, key, value)
  \/ \E category \in STORAGE_CATEGORIES :
       \E key \in FacadeKeys(category) : GetData(category, key)
  \/ \E threw \in BOOLEAN : ClearAll(threw)
SpecFacade == Init /\ [][NextFacade]_vars

\* Readings whose transmission failed are queued for later sync, by calls
\* that may overlap, into an array that is empty or one short of its cap
InitOffline == \E n \in QueueFills : Constructed(0, 0) /\ Services(Queued(n))
NextOffline ==
  \/ StoreOfflineRead
  \/ \E threw \in BOOLEAN : StoreOfflineWrite(threw)
  \/ GetOfflineHealthData
SpecOffline == InitOffline /\ [][NextOffline]_vars

\* The manager as in Spec, with the Health Data Context mounting and
\* unmounting next to it
NextLink ==
  \/ Next
  \/ ContextMount
  \/ ContextUnmount
SpecLink == Init /\ [][NextLink]_vars

\* Callers that overlap their calls: a second invocation is made while one
\* is suspended, and a scan is started while the timeout of an earlier scan
\* is still pending
InitOverlap == Started(MaxOverlap, MaxOverlap)
NextOverlap ==
  \/ StartScanningAlready
  \/ StartScanningCheck
  \/ \E t \in 1..Len(calls), has \in BOOLEAN : CheckPermissionsDone(t, has)
  \/ \E t \in 1..Len(calls), o \in {"granted", "denied", "threw"} :
       RequestPermissionsDone(t, o)
  \/ StopScanning
  \/ ScanTimeout
  \/ \E d \in Devices : ConnectToDevice(d)
  \/ \E t \in 1..Len(calls), ok \in BOOLEAN : TransportConnectDone(t, ok)
  \/ \E t \in 1..Len(calls), ok \in BOOLEAN, setupOk \in BOOLEAN :
       DiscoveryDone(t, ok, setupOk)
  \/ DisconnectNoDevice
  \/ DisconnectFromDevice
  \/ \E t \in 1..Len(calls), ok \in BOOLEAN : CancelConnectionDone(t, ok)
SpecOverlap == InitOverlap /\ [][NextOverlap]_vars

\* the manager after connectToDevice(d) was invoked on the new manager and
\* resolved (ConnectToDevice, TransportConnectDone, DiscoveryDone)
Held(d, n) ==
  /\ overlap = [invocations |-> n, scanTimers |-> 0]
  /\ connectionState = "connected"
  /\ connectedDevice = ConnectedDeviceSnapshot(d)
  /\ isScanning = FALSE
  /\ reconnectAttempts = 0
  /\ reconnectTimeout = FALSE
  /\ scanSubscription = FALSE
  /\ notificationSubscriptions = MapSet({}, "heart_rate", d)
  /\ btOn = TRUE
  /\ bleScanning = FALSE
  /\ links = {d}
  /\ monitors = {Monitor(d, TRUE)}
  /\ scanTimers = 0
  /\ reconnectTimers = <<>>
  /\ handlePending = FALSE
  /\ calls = <<>>
  /\ emitted = emit(setConnectionState("connecting", <<>>, "connected").log,
                    "onDeviceConnected", ConnectedDeviceSnapshot(d), "connected")
  /\ returned = <<Call("connectToDevice", "resolved", d, "caller", "connecting")>>
  /\ announced = "connected"
  /\ scanOnly = FALSE
  /\ events = [e \in EventNames |-> NoHandler]
  /\ delivered = <<>>
  /\ contextMounted = FALSE
  /\ wifiConstructed = FALSE
  /\ triggers = 0
  /\ reconnectTrace = <<>>
  /\ chainBroken = FALSE
  /\ InitServices

\* Scanning next to connecting as in NextScan, a scan also started while the
\* timeout of an earlier scan is still pending; no invocation overlaps another
InitRescan == Started(0, MaxOverlap)
SpecRescan == InitRescan /\ [][NextScan]_vars

\* A connectToDevice(B) and a disconnectFromDevice(), each issued while
\* device A is held, in every interleaving and with every outcome of the
\* transport
InitHandover == Held("A", MaxOverlap)
NextHandover ==
  \/ connectedDevice.id = "A" /\ ConnectToDevice("B")
  \/ connectedDevice.id = "A" /\ DisconnectFromDevice
  \/ \E t \in 1..Len(calls), ok \in BOOLEAN : TransportConnectDone(t, ok)
  \/ \E t \in 1..Len(calls), ok \in BOOLEAN, setupOk \in BOOLEAN :
       DiscoveryDone(t, ok, setupOk)
  \/ \E t \in 1..Len(calls), ok \in BOOLEAN : CancelConnectionDone(t, ok)
SpecHandover == InitHandover /\ [][NextHandover]_vars

\* the parsers and handleCharacteristicValue, applied to every characteristic
\* and value of the bounded sets while a device is connected
Connected(d) == Held(d, 0)

InitVitals == \E d \in Devices : Connected(d)
NextVitals ==
  \E m \in monitors, uuid \in CHARACTERISTIC_UUIDS :
    \E value \in VitalsPayloads(uuid) : CharacteristicValue(m, uuid, value)
SpecVitals == InitVitals /\ [][NextVitals]_vars

\* The manager with a device connected delivers characteristic values to the
\* Health Data Context once it has mounted
InitVitalsContext == Connected("A")
NextVitalsContext ==
  \/ ContextMount
  \/ \E m \in monitors, uuid \in CHARACTERISTIC_UUIDS :
       \E value \in ContextPayloads(uuid) : VitalsReceived(m, uuid, value)
SpecVitalsContext == InitVitalsContext /\ [][NextVitalsContext]_vars

\* ------------------------------------------------------------------ claims
\* the onHealthDataReceived events of the latest run
Readings == {i \in 1..Len(emitted) : emitted[i].ev = "onHealthDataReceived"}

\* C1: an onHealthDataReceived event is emitted only while connectionState
\* is 'connected'
C1_ReadingsOnlyWhileConnected ==
  \A i \in Readings : emitted[i].at = "connected"

\* the edges of the documented state machine
DocumentedEdges ==
  {<<"disconnected", "scanning">>, <<"scanning", "connecting">>,
   <<"connecting", "connected">>, <<"connected", "disconnecting">>,
   <<"disconnecting", "disconnected">>, <<"scanning", "disconnected">>,
   <<"error", "disconnected">>}
    \cup {<<s, "error">> : s \in ConnectionStates}

\* C2: every change of connectionState follows one of the documented edges
C2_OnlyDocumentedEdges ==
  [][connectionState' # connectionState
       => <<connectionState, connectionState'>> \in DocumentedEdges]_vars

\* C3: at most one device is connected and at most one vitals subscription
\* is live, and every reading emitted comes from the link of the connected
\* device
C3_SingleDeviceSingleSubscription ==
  /\ Cardinality(monitors) <= 1
  /\ \A i \in Readings : emitted[i].arg.source = connectedDevice.id

\* an invocation of connectToDevice suspends for the first time in this step
ConnectBegins ==
  /\ Len(calls') = Len(calls) + 1
  /\ calls'[Len(calls')].op = "connectToDevice"
\* an invocation of connectToDevice resolves in this step
ConnectResolves ==
  /\ returned' # <<>>
  /\ returned'[1].op = "connectToDevice"
  /\ returned'[1].pc = "resolved"

\* C4: when connectToDevice(id) resolves, connectionState is 'connected',
\* the connected device is a snapshot built from this connect alone,
\* reconnectAttempts is 0, and exactly one onDeviceConnected carrying that
\* snapshot was emitted, after the listeners were told 'connecting' (when the
\* invocation began) and then 'connected'
C4_ConnectResolvesConnected ==
  [][/\ ConnectBegins => announced' = "connecting"
     /\ ConnectResolves =>
          LET c == returned'[1]
              fresh == [id |-> c.dev,
                        name |-> IF DeviceName(c.dev) = "" THEN "Health Monitor"
                                 ELSE DeviceName(c.dev),
                        services |-> DeviceServices(c.dev)]
              n == Len(emitted')
          IN /\ connectionState' = "connected"
             /\ connectedDevice' = fresh
             /\ reconnectAttempts' = 0
             /\ c.entered = "connecting"
             /\ announced' = "connected"
             /\ n > 0
             /\ emitted'[n].ev = "onDeviceConnected"
             /\ emitted'[n].arg = fresh
             /\ emitted'[n].at = "connected"
             /\ \A i \in 1..(n - 1) : emitted'[i].ev # "onDeviceConnected"]_vars

\* connectToDevice('B') has just resolved while a subscription made for
\* device A by an earlier connect still exists: the snapshot is B's alone
C4_ResolvedAfterEarlierConnect ==
  /\ returned # <<>>
  /\ returned[1].op = "connectToDevice"
  /\ returned[1].pc = "resolved"
  /\ returned[1].dev = "B"
  /\ connectedDevice = [id |-> "B", name |-> "Health Monitor", services |-> {"180d"}]
  /\ [dev |-> "A", mapped |-> FALSE] \in monitors

\* C5: when a sub-step of connectToDevice failed (transport connect,
\* discovery or notification setup), the invocation rejects, connectionState
\* is 'error' and an onError event was emitted
C5_FailedSubStepRejects ==
  (returned # <<>> /\ returned[1].op = "connectToDevice"
     /\ returned[1].failed # "none")
    => /\ returned[1].pc = "rejected"
       /\ connectionState = "error"
       /\ \E i \in 1..Len(emitted) : emitted[i].ev = "onError"

\* an invocation of disconnectFromDevice with a device held begins in this step
DisconnectBegins ==
  /\ Len(calls') = Len(calls) + 1
  /\ calls'[Len(calls')].op = "disconnectFromDevice"
\* an invocation of disconnectFromDevice that had a device ends in this step
DisconnectEnds ==
  /\ Len(calls') = Len(calls) - 1
  /\ returned' # <<>>
  /\ returned'[1].op = "disconnectFromDevice"

\* C6: a successful disconnectFromDevice() with device D connected leaves no
\* vitals subscription live when it goes on to close the transport
\* connection; when it resolves the connected device is cleared,
\* connectionState is 'disconnected' and announced, and exactly one
\* onDeviceDisconnected was emitted, last, carrying D's identifier
C6_DisconnectTearsDownThenCloses ==
  [][/\ DisconnectBegins =>
          /\ monitors' = {}
          /\ notificationSubscriptions' = {}
          /\ calls'[Len(calls')].dev = connectedDevice.id
          /\ calls'[Len(calls')].dev \in Devices
     /\ (DisconnectEnds /\ returned'[1].pc = "resolved") =>
          LET n == Len(emitted') IN
          /\ connectedDevice' = NoDevice
          /\ connectionState' = "disconnected"
          /\ announced' = "disconnected"
          /\ n > 0
          /\ emitted'[n].ev = "onDeviceDisconnected"
          /\ emitted'[n].arg = returned'[1].dev
          /\ \A i \in 1..(n - 1) : emitted'[i].ev # "onDeviceDisconnected"]_vars

\* C7: when disconnectFromDevice() has ended, resolved or rejected, no
\* connected device is held
C7_NoDeviceAfterDisconnect ==
  [][DisconnectEnds => connectedDevice' = NoDevice]_vars

\* disconnectFromDevice() is invoked in this step
DisconnectInvoked ==
  \/ DisconnectBegins
  \/ /\ Len(calls') = Len(calls)
     /\ returned' # <<>>
     /\ returned'[1].op = "disconnectFromDevice"

\* C8: disconnectFromDevice() invoked while no device is held changes no
\* state of the manager or the transport, schedules nothing, emits no event
\* and resolves, whatever connectionState is
C8_DisconnectWithoutDeviceIsNoOp ==
  [][(connectedDevice = NoDevice /\ DisconnectInvoked) =>
       /\ UNCHANGED <<managerVars, transportVars, timerVars, calls, announced>>
       /\ emitted' = <<>>
       /\ returned'[1].pc = "resolved"]_vars

\* disconnectFromDevice() has just returned without a device while a
\* connect is in its 'connecting' phase
C8_NoOpWhileConnecting ==
  /\ returned # <<>>
  /\ returned[1].op = "disconnectFromDevice"
  /\ returned[1].dev = ""
  /\ returned[1].pc = "resolved"
  /\ connectedDevice = NoDevice
  /\ connectionState = "connecting"
  /\ calls # <<>>

\* the chain the reconnect policy prescribes when every attempt fails
FullChain ==
  <<<<"attempt", 1>>, <<"delay", 2000>>, <<"attempt", 2>>, <<"delay", 4000>>,
    <<"attempt", 3>>, <<"delay", 8000>>, <<"giveup", "disconnected">>>>

\* C9: starting from reconnectAttempts = 0 with a held device whose
\* reconnects all fail, attemptReconnect makes exactly 3 connect attempts,
\* waits 2 s, 4 s and 8 s after the first, second and third failure, keeps
\* reconnectAttempts within 0..3, and on the invocation after the third
\* failure sets connectionState to 'disconnected' and schedules nothing more
C9_ReconnectPolicy ==
  /\ reconnectAttempts \in 0..3
  /\ ~chainBroken =>
       /\ Len(reconnectTrace) <= Len(FullChain)
       /\ reconnectTrace = SubSeq(FullChain, 1, Len(reconnectTrace))
       /\ reconnectTrace = FullChain =>
            (reconnectTimers = <<>> /\ ~handlePending /\ reconnectAttempts = 3)

\* the chain has run to its end: three failed attempts, then the give-up
C9_ChainExhausted ==
  /\ ~chainBroken
  /\ reconnectTrace = FullChain
  /\ connectionState = "disconnected"
  /\ connectedDevice # NoDevice

\* startScanning() is invoked in this step
StartScanningInvoked ==
  \/ /\ Len(calls') = Len(calls) + 1
     /\ calls'[Len(calls')].op = "startScanning"
  \/ /\ Len(calls') = Len(calls)
     /\ returned' # <<>>
     /\ returned'[1].op = "startScanning"

\* C10: startScanning invoked while isScanning is true resolves and changes
\* nothing: no second transport scan, no second timeout, connectionState
\* unchanged, no event
C10_StartScanningWhileScanningIsNoOp ==
  [][(isScanning /\ StartScanningInvoked) =>
       /\ UNCHANGED <<managerVars, transportVars, timerVars, calls, announced>>
       /\ emitted' = <<>>
       /\ returned'[1].pc = "resolved"]_vars

\* startScanning() has just returned at once during a scan that a connect
\* has meanwhile taken to 'connected'
C10_NoOpDuringScan ==
  /\ returned # <<>>
  /\ returned[1].op = "startScanning"
  /\ returned[1].pc = "resolved"
  /\ isScanning /\ bleScanning /\ scanTimers = 1
  /\ connectionState = "connected"

\* what a scan consists of: the flag, the subscription, the transport scan
\* and the pending timeouts
scanVars == <<isScanning, scanSubscription, bleScanning, scanTimers>>

\* an invocation of startScanning is suspended in this step or moves from
\* the permission check to the permission request
StartScanningWaitsForPermissions ==
  \/ /\ Len(calls') = Len(calls) + 1
     /\ calls'[Len(calls')].op = "startScanning"
  \/ /\ Len(calls') = Len(calls)
     /\ \E t \in 1..Len(calls) :
          /\ calls[t].op = "startScanning" /\ calls[t].pc = "check"
          /\ calls'[t].pc = "request"
\* an invocation of startScanning ends in this step with its permissions denied
StartScanningDenied ==
  /\ Len(calls') = Len(calls) - 1
  /\ returned' # <<>>
  /\ returned'[1].op = "startScanning"
  /\ returned'[1].failed = "permissions"

\* C11: a startScanning whose permission check fails and whose permission
\* request is denied rejects; none of its steps starts a transport scan,
\* schedules a timeout or sets isScanning, and none sets connectionState to
\* 'scanning'
C11_DeniedScanStartsNothing ==
  [][/\ StartScanningWaitsForPermissions =>
          (UNCHANGED scanVars /\ UNCHANGED connectionState /\ emitted' = <<>>)
     /\ StartScanningDenied =>
          /\ returned'[1].pc = "rejected"
          /\ UNCHANGED scanVars
          /\ connectionState' # "scanning" \/ connectionState = "scanning"
          /\ \A i \in 1..Len(emitted') :
               emitted'[i].ev = "onConnectionStateChanged" => emitted'[i].arg # "scanning"]_vars

\* startScanning has just rejected for lack of permissions and no scan exists
C11_RejectedWithoutScan ==
  /\ returned # <<>>
  /\ returned[1].op = "startScanning"
  /\ returned[1].pc = "rejected"
  /\ returned[1].failed = "permissions"
  /\ ~isScanning /\ ~scanSubscription /\ ~bleScanning /\ scanTimers = 0
  /\ connectionState = "error"

StopScanningRuns ==
  \/ returned' # <<>> /\ returned'[1].op = "stopScanning"
  \/ scanTimers' < scanTimers

\* C13: stopScanning changes connectionState only from 'scanning' to
\* 'disconnected'; run in any other state it leaves connectionState and the
\* connected device unchanged and announces nothing
C13_StopScanningOnlyLeavesScanning ==
  [][StopScanningRuns =>
       /\ UNCHANGED connectedDevice
       /\ connectionState = "scanning" => connectionState' = "disconnected"
       /\ connectionState # "scanning" =>
            (UNCHANGED <<connectionState, announced>> /\ emitted' = <<>>)]_vars

\* stopScanning() has just returned in state 'connected', reached by a
\* connect while the scan (whose timeout is still pending) was running
C13_StoppedWhileConnected ==
  /\ returned # <<>>
  /\ returned[1].op = "stopScanning"
  /\ returned[1].entered = "connected"
  /\ connectionState = "connected"
  /\ connectedDevice # NoDevice
  /\ ~isScanning /\ scanTimers = 1

\* every combination of the fields stopScanning() reads
ScanViews ==
  [connectionState : ConnectionStates, isScanning : BOOLEAN,
   scanSubscription : BOOLEAN, bleScanning : BOOLEAN]
\* a second stopScanning() right after a first one changes nothing and
\* emits nothing
StopScanningIdempotent ==
  \A v \in ScanViews :
    LET once == stopScanningResult(v)
        twice == stopScanningResult(once) IN
    /\ twice.connectionState = once.connectionState
    /\ twice.isScanning = once.isScanning
    /\ twice.scanSubscription = once.scanSubscription
    /\ twice.bleScanning = once.bleScanning
    /\ twice.log = <<>>
\* stopScanning() invoked by a caller has just returned
StopScanningReturned == returned # <<>> /\ returned[1].op = "stopScanning"

C15_CleanupLeavesDisconnected ==
  (returned # <<>> /\ returned[1].op = "cleanup")
    => connectionState = "disconnected"

\* an emit of event e
Probe(e) == <<[ev |-> e, arg |-> "probe", at |-> connectionState]>>
\* after on(e, h1) then on(e, h2) an emit of e invokes h2 once and h1 never;
\* after off(e) it invokes no handler
LastRegistrationWins ==
  \A e \in EventNames, h1 \in Handlers, h2 \in Handlers :
    /\ Invocations(Probe(e), on(on(events, e, h1), e, h2))
         = <<[handler |-> h2, ev |-> e, arg |-> "probe"]>>
    /\ Invocations(Probe(e), off(on(events, e, h1), e)) = <<>>
\* the emit()s of this step that found a handler registered
Heard == {i \in 1..Len(emitted') : events[emitted'[i].ev] # NoHandler}

\* C16: the bus holds at most one handler per event name, the handler
\* registered last; an emit invokes that handler exactly once and no other,
\* none after off, and the invocations of a run follow the order of its emits
C16_OneHandlerLastWins ==
  /\ [](events \in [EventNames -> Handlers \cup {NoHandler}] /\ LastRegistrationWins)
  /\ [][/\ Len(delivered') = Cardinality(Heard)
        /\ \A k \in 1..Len(delivered') :
             \E i \in Heard :
               /\ Cardinality({j \in Heard : j <= i}) = k
               /\ delivered'[k].ev = emitted'[i].ev
               /\ delivered'[k].handler = events[emitted'[i].ev]
               /\ delivered'[k].arg = emitted'[i].arg]_vars

\* a connect has just resolved with the context mounted and the WiFi
\* manager registered after it: the context's handler heard 'connected',
\* then the WiFi manager's handler, and no other, heard onDeviceConnected
C16_SecondHandlerHeard ==
  /\ contextMounted
  /\ Len(delivered) = 2
  /\ delivered[1].handler = "context"
  /\ delivered[1].ev = "onConnectionStateChanged"
  /\ delivered[2].handler = "wifi"
  /\ delivered[2].ev = "onDeviceConnected"

\* C17: while the Health Data Context is mounted, its handler is the one
\* registered for each of its four events, so every such event the manager
\* emits is delivered to it
C17_ContextHearsEveryEvent ==
  contextMounted =>
    /\ \A e \in ContextEvents : events[e] = "context"
    /\ \A k \in 1..Len(delivered) :
         delivered[k].ev \in ContextEvents => delivered[k].handler = "context"

\* the characteristics handleCharacteristicValue knows, the packet fields
\* each one fills, and the bytes its parser reads
VitalsCharacteristics ==
  {HEART_RATE_MEASUREMENT, BLOOD_PRESSURE_MEASUREMENT, TEMPERATURE_MEASUREMENT,
   OXYGEN_SATURATION, BATTERY_LEVEL}
VitalFields ==
  {"heartRate", "bloodPressureSystolic", "bloodPressureDiastolic", "temperature",
   "oxygenLevel", "batteryLevel"}
FieldsOf(uuid) ==
  CASE uuid = HEART_RATE_MEASUREMENT -> {"heartRate"}
    [] uuid = BLOOD_PRESSURE_MEASUREMENT ->
         {"bloodPressureSystolic", "bloodPressureDiastolic"}
    [] uuid = TEMPERATURE_MEASUREMENT -> {"temperature"}
    [] uuid = OXYGEN_SATURATION -> {"oxygenLevel"}
    [] uuid = BATTERY_LEVEL -> {"batteryLevel"}
WellFormed(uuid, value) ==
  Len(value) >= CASE uuid = HEART_RATE_MEASUREMENT ->
                       IF value # <<>> /\ value[1] % 2 = 1 THEN 3 ELSE 2
                  [] uuid = BLOOD_PRESSURE_MEASUREMENT -> 5
                  [] uuid = TEMPERATURE_MEASUREMENT -> 4
                  [] OTHER -> 1
ParsedField(uuid, value, k) ==
  CASE k = "heartRate" -> parseHeartRate(value)
    [] k = "bloodPressureSystolic" -> parseBloodPressure(value).systolic
    [] k = "bloodPressureDiastolic" -> parseBloodPressure(value).diastolic
    [] k = "temperature" -> parseTemperature(value)
    [] k = "oxygenLevel" -> parseOxygenSaturation(value)
    [] k = "batteryLevel" -> parseBatteryLevel(value)

\* C18: a notification for a known vitals characteristic with a well-formed
\* value yields exactly one reading; its fields parsed from that
\* characteristic carry the parsed values, every other vital field and the
\* battery field is 0, whatever was emitted before
C18_PartialReadingZeroFilled ==
  /\ \A m \in monitors, uuid \in VitalsCharacteristics :
       \A value \in VitalsPayloads(uuid) :
         WellFormed(uuid, value) =>
           LET log == handleCharacteristicValue(m, uuid, value) IN
           /\ Len(log) = 1
           /\ log[1].ev = "onHealthDataReceived"
           /\ \A k \in VitalFields :
                log[1].arg[k] = IF k \in FieldsOf(uuid)
                                  THEN ParsedField(uuid, value, k) ELSE 0
  /\ \A i \in Readings :
       /\ Cardinality(Readings) = 1
       /\ \E uuid \in VitalsCharacteristics :
            \A k \in VitalFields \ FieldsOf(uuid) : emitted[i].arg[k] = 0

\* a blood-pressure value was handled: one reading, 120.0 / 80.0 mmHg, its
\* heart rate, temperature, oxygen and battery fields 0
C18_BloodPressureOnlyReading ==
  /\ Len(emitted) = 1
  /\ emitted[1].ev = "onHealthDataReceived"
  /\ emitted[1].arg.bloodPressureSystolic = 1200
  /\ emitted[1].arg.bloodPressureDiastolic = 800
  /\ emitted[1].arg.heartRate = 0
  /\ emitted[1].arg.temperature = 0
  /\ emitted[1].arg.oxygenLevel = 0
  /\ emitted[1].arg.batteryLevel = 0

\* heart-rate measurements: any of six flag bytes, every byte 1, four bytes 2
HeartRateInputs ==
  {<<f, a, b>> : f \in {0, 1, 2, 3, 254, 255}, a \in 0..255, b \in {0, 1, 128, 255}}
    \cup {<<f, a>> : f \in {0, 2, 254}, a \in 0..255}

\* C19: parseHeartRate returns byte1 + 256 * byte2 when bit 0 of the flags
\* byte is set and byte1 when it is clear; <<1, 72, 0>> and <<0, 72>> parse
\* to 72; the reading emitted for the value carries that heart rate
C19_HeartRateWidthFollowsFlag ==
  /\ parseHeartRate(<<1, 72, 0>>) = 72
  /\ parseHeartRate(<<0, 72>>) = 72
  /\ \A data \in HeartRateInputs :
       parseHeartRate(data) = IF data[1] % 2 = 1 THEN data[2] + 256 * data[3]
                              ELSE data[2]
  /\ \A m \in monitors, data \in HeartRatePayloads :
       WellFormed(HEART_RATE_MEASUREMENT, data) =>
         handleCharacteristicValue(m, HEART_RATE_MEASUREMENT, data)[1].arg.heartRate
           = IF data[1] % 2 = 1 THEN data[2] + 256 * data[3] ELSE data[2]

\* a 16-bit heart-rate value with a non-zero high byte was handled:
\* <<1, 72, 255>> gave 72 + 256 * 255
C19_SixteenBitReading ==
  /\ Len(emitted) = 1
  /\ emitted[1].ev = "onHealthDataReceived"
  /\ emitted[1].arg.heartRate = 65352

\* blood-pressure measurements: every low byte, six high bytes
BloodPressureInputs ==
  {<<f, lo, hi, hi, lo>> : f \in {0, 1}, lo \in 0..255, hi \in {0, 1, 3, 4, 128, 255}}

\* C20: parseBloodPressure reads systolic from bytes 1..2 and diastolic from
\* bytes 3..4 as unsigned 16-bit little-endian values; in tenths of mmHg the
\* result equals the raw value: raw 1200 and 800 give 120.0 and 80.0 mmHg
C20_BloodPressureTenths ==
  /\ parseBloodPressure(<<0, 176, 4, 32, 3>>) = [systolic |-> 1200, diastolic |-> 800]
  /\ \A data \in BloodPressureInputs \cup BloodPressurePayloads :
       Len(data) >= 5 =>
         /\ parseBloodPressure(data).systolic = data[2] + 256 * data[3]
         /\ parseBloodPressure(data).diastolic = data[4] + 256 * data[5]
         /\ parseBloodPressure(data).systolic \in 0..65535
         /\ parseBloodPressure(data).diastolic \in 0..65535
  /\ \A m \in monitors, data \in BloodPressurePayloads :
       Len(data) >= 5 =>
         LET p == handleCharacteristicValue(m, BLOOD_PRESSURE_MEASUREMENT, data)[1].arg IN
         /\ p.bloodPressureSystolic = data[2] + 256 * data[3]
         /\ p.bloodPressureDiastolic = data[4] + 256 * data[5]

\* a blood-pressure value with the largest raw values was handled: 6553.5
\* mmHg in both fields
C20_LargestRawReading ==
  /\ Len(emitted) = 1
  /\ emitted[1].ev = "onHealthDataReceived"
  /\ emitted[1].arg.bloodPressureSystolic = 65535
  /\ emitted[1].arg.bloodPressureDiastolic = 65535

\* the handler's run emitted no reading
NoReading(lg) == \A i \in 1..Len(lg) : lg[i].ev # "onHealthDataReceived"

\* C21: a notification with an empty value, a value too short for its
\* parser, or an unknown characteristic leaves connectionState, the
\* connected device and the subscription as they are and emits no reading;
\* after it a well-formed notification is still parsed and emitted
C21_MalformedNotificationIsDropped ==
  /\ [](\A m \in monitors, uuid \in CHARACTERISTIC_UUIDS :
          \A value \in VitalsPayloads(uuid) :
            \/ uuid \in VitalsCharacteristics /\ value # <<>> /\ WellFormed(uuid, value)
            \/ NoReading(handleCharacteristicValue(m, uuid, value)))
  /\ [](NoReading(emitted) =>
          \A m \in monitors, uuid \in VitalsCharacteristics :
            \A value \in VitalsPayloads(uuid) :
              value # <<>> /\ WellFormed(uuid, value) =>
                ~NoReading(handleCharacteristicValue(m, uuid, value)))
  /\ [][NoReading(emitted') =>
          /\ connectionState' = connectionState
          /\ connectedDevice' = connectedDevice
          /\ monitors' = monitors /\ monitors # {}
          /\ links' = links
          /\ notificationSubscriptions' = notificationSubscriptions]_vars

\* a value too short for its parser was just handled: the run emitted
\* onError and nothing else, the device is still connected and monitored
C21_ShortValueHandled ==
  /\ Len(emitted) = 1
  /\ emitted[1].ev = "onError"
  /\ emitted[1].arg = "parse"
  /\ connectionState = "connected"
  /\ connectedDevice # NoDevice
  /\ monitors # {}

\* the modal starts a scan session in this step: its startScanning ran up to
\* bluetoothManager.startScanning
ModalSessionStarts ==
  \/ /\ Len(calls') = Len(calls) + 1
     /\ calls'[Len(calls')].op = "startScanning"
     /\ calls'[Len(calls')].via = "modal"
  \/ /\ Len(returned') = 1
     /\ returned'[1].op = "startScanning"
     /\ returned'[1].via = "modal"
     /\ Len(calls') = Len(calls)
     /\ emitted' = <<>>
\* the discovery events the modal's handler was called with in this step
ModalHeard ==
  {k \in 1..Len(delivered') :
     delivered'[k].handler = "modal" /\ delivered'[k].ev = "onDeviceDiscovered"}

\* C30: the modal's list holds each device id at most once; an entry, once
\* in the list, keeps its descriptor until the list is emptied; a discovered
\* device whose id is not listed is appended, one whose id is listed changes
\* nothing; the list is emptied when the modal starts a scan session
C30_ModalListDeduplicates ==
  /\ [](\A i \in 1..Len(devices), j \in 1..Len(devices) :
          devices[i].id = devices[j].id => i = j)
  /\ [][\/ devices' = <<>>
        \/ /\ Len(devices') >= Len(devices)
           /\ \A i \in 1..Len(devices) : devices'[i] = devices[i]]_vars
  /\ [][\A k \in ModalHeard :
          IF \E i \in 1..Len(devices) : devices[i].id = delivered'[k].arg.id
            THEN devices' = devices
            ELSE devices' = Append(devices, delivered'[k].arg)]_vars
  /\ [][ModalSessionStarts => devices' = <<>>]_vars

\* device A is listed with the descriptor seen first, and the modal's
\* handler was just called with another advertisement of A
C30_RepeatedAdvertisementDropped ==
  /\ Len(delivered) = 1
  /\ delivered[1].handler = "modal"
  /\ delivered[1].ev = "onDeviceDiscovered"
  /\ delivered[1].arg.id = "A"
  /\ \E i \in 1..Len(devices) :
       devices[i].id = "A" /\ devices[i].rssi # delivered[1].arg.rssi
  /\ Len(devices) = 2

\* the context's handler of onHealthDataReceived runs in this step, for the
\* packet emitted'[1].arg
ContextHandles == packetsHandled' = packetsHandled + 1

\* C22: while a breaching reading is less than 10 seconds old (the timer it
\* started is pending and not yet due) the alert flag is set: the timer of an
\* earlier reading does not clear it
C22_AlertHeldUntilLastBreachAged ==
  (\E i \in 1..Len(alertTimers) : alertTimers[i] > now) => hasAlerts

\* the bounds of checkForAlerts as the specification states them, blood
\* pressure in tenths of mmHg and temperature in hundredths of a degree
Breaches(data) ==
  \/ data.heartRate < 60 \/ data.heartRate > 100
  \/ data.bloodPressureSystolic > 1400
  \/ data.bloodPressureDiastolic > 900
  \/ data.temperature < 3600 \/ data.temperature > 3750
  \/ data.oxygenLevel < 95
\* packets on and next to the bounds
ThresholdPackets ==
  {HealthDataPacket(hr, sys, dia, temp, ox, 0) :
     hr \in {59, 60, 100, 101}, sys \in {1400, 1401}, dia \in {900, 901},
     temp \in {3599, 3600, 3750, 3751}, ox \in {94, 95}}

\* C23: handling a reading sets the alert flag and schedules its clear
\* exactly when a value is outside its bounds; a reading with every value
\* inside or on its bounds changes neither the flag nor the timers
C23_AlertIffOutsideBounds ==
  /\ [](\A data \in ThresholdPackets :
          (Len(checkForAlerts(data)) > 0) <=> Breaches(data))
  /\ [][ContextHandles =>
          IF Breaches(emitted'[1].arg)
            THEN /\ hasAlerts'
                 /\ alertTimers' = Append(alertTimers, now + AlertClearDelay)
            ELSE /\ hasAlerts' = hasAlerts
                 /\ alertTimers' = alertTimers]_vars

\* a reading with every value on its bound was just handled with no alert
\* raised and no clear scheduled
C23_BoundaryReadingRaisesNothing ==
  /\ packetsHandled > 0
  /\ Len(emitted) = 1
  /\ emitted[1].ev = "onHealthDataReceived"
  /\ emitted[1].arg.heartRate = 60
  /\ emitted[1].arg.temperature = 3750
  /\ emitted[1].arg.oxygenLevel = 95
  /\ ~hasAlerts
  /\ alertTimers = <<>>

\* the entries of h that are less than 24 hours older than t
Recent(h, t) == SelectSeq(h, LAMBDA item : t - item.timestamp < RetentionWindow)

\* C24: after a vitals-received event the history ends with the new reading,
\* holds before it the earlier entries that are less than 24 hours old, in
\* arrival order, and holds no entry 24 hours or more before the append
C24_HistoryKeepsTrailingDay ==
  [][ContextHandles =>
       /\ Len(historicalData') = Len(Recent(historicalData, now)) + 1
       /\ historicalData'[Len(historicalData')].timestamp = emitted'[1].arg.timestamp
       /\ historicalData'[Len(historicalData')].heartRate = emitted'[1].arg.heartRate
       /\ historicalData'[Len(historicalData')].oxygenLevel = emitted'[1].arg.oxygenLevel
       /\ historicalData'[Len(historicalData')].temperature = emitted'[1].arg.temperature
       /\ \A i \in 1..Len(Recent(historicalData, now)) :
            historicalData'[i] = Recent(historicalData, now)[i]
       /\ \A i \in 1..Len(historicalData') :
            now - historicalData'[i].timestamp < RetentionWindow]_vars

\* three readings over 30 hours or more were handled and the history has
\* lost the ones that were a day old
C24_DayOldReadingsPruned ==
  /\ packetsHandled = 3
  /\ Len(emitted) = 1
  /\ emitted[1].ev = "onHealthDataReceived"
  /\ now >= 30 * 60 * 60 * 1000
  /\ Len(historicalData) < 3

\* C25: after the context handled a vitals-received event currentData holds
\* the reading's heart rate, systolic, diastolic, temperature, oxygen level
\* and timestamp, and nothing of the previous currentData
C25_CurrentDataReplacedWholesale ==
  [][ContextHandles =>
       /\ currentData'.heartRate = emitted'[1].arg.heartRate
       /\ currentData'.bloodPressureSystolic = emitted'[1].arg.bloodPressureSystolic
       /\ currentData'.bloodPressureDiastolic = emitted'[1].arg.bloodPressureDiastolic
       /\ currentData'.temperature = emitted'[1].arg.temperature
       /\ currentData'.oxygenLevel = emitted'[1].arg.oxygenLevel
       /\ currentData'.lastUpdated = emitted'[1].arg.timestamp]_vars

\* an oxygen-only reading was just handled after a reading with heart rate
\* 72: the current heart rate is back to 0
C25_PartialReadingResetsOthers ==
  /\ Len(emitted) = 1
  /\ emitted[1].ev = "onHealthDataReceived"
  /\ emitted[1].arg.oxygenLevel = 94
  /\ emitted[1].arg.heartRate = 0
  /\ Len(historicalData) >= 2
  /\ historicalData[Len(historicalData) - 1].heartRate = 72
  /\ currentData.heartRate = 0
  /\ currentData.oxygenLevel = 94

\* C26: the four permission functions never throw; on Android they report
\* granted exactly when the scan, connect and location permissions are all
\* granted, false when one is denied or its query fails; on the other
\* platform they report true
C26_PermissionsFailClosed ==
  answered.fn \in PermissionFunctions =>
    /\ ~answered.result.threw
    /\ answered.result.granted =
         IF answered.os = "android"
           THEN \A p \in AndroidPermissions : answered.answers[p] \in {"granted", "true"}
           ELSE TRUE

\* the manager's requestPermissions ended on Android with the location
\* query failing and the other two permissions granted: false, not thrown
C26_FailedQueryReportsFalse ==
  /\ answered.fn = "requestPermissions"
  /\ answered.os = "android"
  /\ answered.answers["ACCESS_FINE_LOCATION"] = "rejects"
  /\ answered.answers["BLUETOOTH_SCAN"] = "granted"
  /\ answered.answers["BLUETOOTH_CONNECT"] = "granted"
  /\ ~answered.result.threw
  /\ ~answered.result.granted

ClientErrors == {400, 401, 403, 404, 422, 429}

\* C27: a request answered with a 4xx status is issued exactly once and the
\* call rejects with its typed error, without a retry
C27_ClientErrorNotRetried ==
  (api.statuses # <<>> /\ api.statuses[1] \in ClientErrors) =>
    /\ api.pc = "rejected"
    /\ api.requests = 1
    /\ api.delays = <<>>

\* C28: one call issues at most 3 requests, waiting 1 s and then 2 s between
\* them
C28_AtMostThreeRequests ==
  /\ api.requests <= 3
  /\ api.delays \in {<<>>, <<1000>>, <<1000, 2000>>}

\* C29: getItem(k) returns a value equal to the one the latest setItem(k, v)
\* stored, strings included
C29_GetReturnsWhatWasSet ==
  (answered.fn = "getItem" /\ asyncStorage[answered.key].present) =>
    answered.result = asyncStorage[answered.key].value

\* C34: in every reachable state, connectionState = 'disconnected' implies
\* that no Connected Device is held
C34_DisconnectedHoldsNoDevice ==
  connectionState = "disconnected" => connectedDevice = NoDevice

\* the onConnectionStateChanged events of a log, in order
StateChanges(lg) == SelectSeq(lg, LAMBDA e : e.ev = "onConnectionStateChanged")

\* C38: onConnectionStateChanged is emitted exactly when connectionState
\* takes a new value: each event of a run carries a state different from the
\* one before it, a run without such an event leaves connectionState alone,
\* and the state of the last event is the value getConnectionState() returns
C38_StateChangedIffNewValue ==
  /\ [](IF announced = "" THEN connectionState = "disconnected"
        ELSE announced = connectionState)
  /\ [][LET ch == StateChanges(emitted') IN
        /\ ch = <<>> => connectionState' = connectionState
        /\ \A i \in 1..Len(ch) :
             /\ ch[i].arg # (IF i = 1 THEN connectionState ELSE ch[i - 1].arg)
             /\ ch[i].at = ch[i].arg
        /\ ch # <<>> => ch[Len(ch)].arg = connectionState']_vars

\* the scan listener reported an error while the state was already 'error':
\* onError was emitted, no state change was
C38_SameStateNotAnnounced ==
  /\ connectionState = "error"
  /\ announced = "error"
  /\ StateChanges(emitted) = <<>>
  /\ \E i \in 1..Len(emitted) : emitted[i].ev = "onError" /\ emitted[i].arg = "scan"

\* C35: after cleanup() has returned (it never rejects) no reconnect timer is
\* pending, no event handler is registered, no scan is running and no device
\* is held, also when the disconnect inside cleanup failed
C35_CleanupReleasesEverything ==
  (returned # <<>> /\ returned[1].op = "cleanup") =>
    /\ returned[1].pc = "resolved"
    /\ reconnectTimers = <<>>
    /\ ~reconnectTimeout
    /\ \A e \in EventNames : events[e] = NoHandler
    /\ ~isScanning /\ ~bleScanning
    /\ connectedDevice = NoDevice

\* C36: after every event has been handled, the Health Data Context reports
\* isConnected = true only if the manager is connected, and a connectedDevice
\* identifier only if the manager is connected with that device held
C36_ContextAgreesWithManager ==
  /\ contextLink.isConnected => isConnected
  /\ contextLink.connectedDevice # "" =>
       (isConnected /\ connectedDevice.id = contextLink.connectedDevice)

\* C31: once a connectToDevice(B) and a disconnectFromDevice() issued while A
\* was held have both completed, the manager reports 'connected' with B
\* exactly when the link to B is open and subscribed; it does not report
\* 'disconnected' with no device while B's link and subscription are alive
C31_ViewAgreesWithTransport ==
  calls = <<>> =>
    /\ (connectionState = "connected" /\ connectedDevice.id = "B") => "B" \in links
    /\ ("B" \in links /\ Monitor("B", TRUE) \in monitors) =>
         (connectionState = "connected" /\ connectedDevice.id = "B")
    /\ ~(/\ connectionState = "disconnected"
         /\ connectedDevice = NoDevice
         /\ "B" \in links
         /\ \E m \in monitors : m.dev = "B")

\* C32: the manager stops a running scan by timeout only with the timeout
\* that scan scheduled: a timeout that stops a scan leaves none pending
C32_TimeoutStopsItsOwnScan ==
  [][(isScanning /\ ~isScanning' /\ scanTimers' < scanTimers) => scanTimers' = 0]_vars

\* C33: overlapping startScanning calls start at most one transport scan and
\* schedule at most one timeout: a scan is begun, and its timeout scheduled,
\* only while no scan is in progress
C33_OverlappingCallsStartOneScan ==
  [][scanTimers' > scanTimers => (~isScanning /\ ~bleScanning)]_vars

\* C37: every reading the manager emits breaches at least one alert
\* threshold, whatever the characteristic and its value, and the Health Data
\* Context raises the alert flag (and starts its timer) on every
\* vitals-received event it handles
C37_EveryManagerReadingAlerts ==
  /\ [](\A m \in monitors, uuid \in CHARACTERISTIC_UUIDS :
          \A value \in VitalsPayloads(uuid) :
            LET lg == handleCharacteristicValue(m, uuid, value) IN
            (lg # <<>> /\ lg[1].ev = "onHealthDataReceived") =>
              checkForAlerts(Stamped(lg[1].arg, now)) # <<>>)
  /\ [][ContextHandles =>
          /\ hasAlerts'
          /\ alertTimers' = Append(alertTimers, now + AlertClearDelay)]_vars

\* the context handled a heart rate of 72 from the manager, a value within
\* its bounds, and the alert flag is up
C37_NormalHeartRateAlerts ==
  /\ packetsHandled > 0
  /\ emitted # <<>>
  /\ emitted[1].ev = "onHealthDataReceived"
  /\ emitted[1].arg.heartRate = 72
  /\ currentData.heartRate = 72
  /\ currentData.temperature = 0
  /\ hasAlerts

\* C40: after clearAll has resolved, getData returns null for every category
\* and key, the sensitive category included
C40_NothingSurvivesClearAll ==
  (answered.fn = "clearAll" /\ ~answered.rejected) =>
    \A category \in STORAGE_CATEGORIES : \A key \in FacadeKeys(category) :
      getData(category, key, secureStore, asyncStorage) = Null

\* the items of the calls of storeOfflineHealthData that have resolved
ResolvedItems ==
  {offlineCalls[i].item : i \in {k \in 1..Len(offlineCalls) :
                                   offlineCalls[k].pc = "resolved"}}
QueuedItems == {pendingSync.items[j] : j \in 1..Len(pendingSync.items)}

\* C39: the item of every storeOfflineHealthData call that has resolved is in
\* the pending_sync array, unless the array is at its cap and holds only
\* newer items; and the array never holds more than the cap
C39_ResolvedItemsStayQueued ==
  /\ Len(pendingSync.items) <= pendingSyncCap
  /\ \A item \in ResolvedItems :
       \/ item \in QueuedItems
       \/ /\ Len(pendingSync.items) = pendingSyncCap
          /\ \A other \in QueuedItems : other > item

====
